---------------------------- MODULE Spec2Model ----------------------------
(***************************************************************************)
(* Model of the IKF PhoneBook contact core: the raw-text contact parser    *)
(* (services/contactParser), the duplicate detector and merger             *)
(* (services/duplicateDetector.js) and the routes that drive them          *)
(* (routes/contacts, routes/import.js) over the contacts table             *)
(* (utils/database.js).                                                    *)
(*                                                                         *)
(* A JavaScript string is a sequence of one-character strings.  SQL NULL,  *)
(* and JavaScript null and undefined (which the sqlite3 driver binds as    *)
(* NULL), are the value NULL.                                              *)
(***************************************************************************)
EXTENDS Integers, Sequences, FiniteSets, TLC

(***************************************************************************)
(* Strings                                                                 *)
(***************************************************************************)
NULL == <<"NULL">>

Digits == {"0", "1", "2", "3", "4", "5", "6", "7", "8", "9"}

Whitespace == {" ", "\t", "\n"}

Upper == <<"A", "B", "C", "D", "E", "F", "G", "H", "I", "J", "K", "L", "M",
           "N", "O", "P", "Q", "R", "S", "T", "U", "V", "W", "X", "Y", "Z">>

Lower == <<"a", "b", "c", "d", "e", "f", "g", "h", "i", "j", "k", "l", "m",
           "n", "o", "p", "q", "r", "s", "t", "u", "v", "w", "x", "y", "z">>

Letters == {Upper[i] : i \in 1..26} \cup {Lower[i] : i \in 1..26}

\* JavaScript truthiness of a string-or-null value: !x is TRUE for null,
\* undefined and ''.
Truthy(x) == x # NULL /\ x # <<>>

Max(a, b) == IF a >= b THEN a ELSE b

Min(a, b) == IF a <= b THEN a ELSE b

ToLowerChar(c) ==
    IF \E i \in 1..26 : Upper[i] = c
    THEN Lower[CHOOSE i \in 1..26 : Upper[i] = c]
    ELSE c

\* String.prototype.toLowerCase
ToLower(s) == [i \in 1..Len(s) |-> ToLowerChar(s[i])]

\* String.prototype.trim
Trim(s) ==
    LET keep == {i \in 1..Len(s) : s[i] \notin Whitespace}
    IN  IF keep = {} THEN <<>>
        ELSE LET lo == CHOOSE i \in keep : \A j \in keep : i <= j
                 hi == CHOOSE i \in keep : \A j \in keep : i >= j
             IN  SubSeq(s, lo, hi)

\* s.startsWith(t) at offset i (1-based): t occurs in s at position i
OccursAt(s, t, i) ==
    /\ i >= 1
    /\ i + Len(t) - 1 <= Len(s)
    /\ \A k \in 1..Len(t) : s[i + k - 1] = t[k]

\* String.prototype.includes
Includes(s, t) == \E i \in 1..(Len(s) - Len(t) + 1) : OccursAt(s, t, i)

\* String.prototype.startsWith
StartsWith(s, t) == OccursAt(s, t, 1)

\* String.prototype.replace(t, '') with a string pattern: the first
\* occurrence of t is removed ('' occurs at the start and removes nothing).
RemoveFirst(s, t) ==
    IF ~Includes(s, t) THEN s
    ELSE LET i == CHOOSE k \in 1..(Len(s) - Len(t) + 1) :
                     /\ OccursAt(s, t, k)
                     /\ \A m \in 1..(k - 1) : ~OccursAt(s, t, m)
         IN  SubSeq(s, 1, i - 1) \o SubSeq(s, i + Len(t), Len(s))

\* String.prototype.replace(/[...]/g, ''): every character of cls is removed
RemoveChars(s, cls) == SelectSeq(s, LAMBDA c : c \notin cls)

\* String.prototype.split(t) for a non-empty string separator t
RECURSIVE SplitFrom(_, _, _, _)
SplitFrom(s, t, i, cur) ==
    IF i > Len(s) THEN <<cur>>
    ELSE IF OccursAt(s, t, i)
         THEN <<cur>> \o SplitFrom(s, t, i + Len(t), <<>>)
         ELSE SplitFrom(s, t, i + 1, Append(cur, s[i]))

Split(s, t) == SplitFrom(s, t, 1, <<>>)

\* String.prototype.split(/\s+/): a run of whitespace is one separator
RECURSIVE SplitWsFrom(_, _, _)
SplitWsFrom(s, i, cur) ==
    IF i > Len(s) THEN <<cur>>
    ELSE IF s[i] \in Whitespace
         THEN IF i < Len(s) /\ s[i + 1] \in Whitespace
              THEN SplitWsFrom(s, i + 1, cur)
              ELSE <<cur>> \o SplitWsFrom(s, i + 1, <<>>)
         ELSE SplitWsFrom(s, i + 1, Append(cur, s[i]))

SplitWs(s) == SplitWsFrom(s, 1, <<>>)

\* Array.prototype.join
RECURSIVE Join(_, _)
Join(parts, sep) ==
    IF Len(parts) = 0 THEN <<>>
    ELSE IF Len(parts) = 1 THEN parts[1]
    ELSE parts[1] \o sep \o Join(Tail(parts), sep)

\* parts[i] of a JavaScript array: undefined past the end
At(parts, i) == IF i <= Len(parts) THEN parts[i] ELSE NULL

(***************************************************************************)
(* Similarity scorer (services/duplicateDetector.js)                       *)
(***************************************************************************)
\* Math.min of three numbers
Min3(a, b, c) == CHOOSE m \in {a, b, c} : \A x \in {a, b, c} : m <= x

\* One row of the edit-distance matrix: cur holds matrix[i][0..j-1], prev is
\* matrix[i-1]; both are indexed from 1 (column j is element j+1).
RECURSIVE LevRow(_, _, _, _, _, _)
LevRow(s1, s2, i, prev, j, cur) ==
    IF j > Len(s1) THEN cur
    ELSE LET cell == IF s2[i] = s1[j]
                     THEN prev[j]
                     ELSE Min3(prev[j] + 1, cur[j] + 1, prev[j + 1] + 1)
             next == Append(cur, cell)
         IN  IF Len(next) = j + 1 THEN LevRow(s1, s2, i, prev, j + 1, next) ELSE <<>>

RECURSIVE LevRows(_, _, _, _)
LevRows(s1, s2, i, prev) ==
    IF i > Len(s2) THEN prev
    ELSE LET row == LevRow(s1, s2, i, prev, 1, <<i>>)
         IN  IF Len(row) = Len(s1) + 1 THEN LevRows(s1, s2, i + 1, row) ELSE <<>>

\* matrix[s2.length][s1.length]
Levenshtein(s1, s2) ==
    LevRows(s1, s2, 1, [j \in 1..(Len(s1) + 1) |-> j - 1])[Len(s1) + 1]

\* The similarity 1 - distance/maxLength is the fraction num/den
Ratio(n, d) == [num |-> n, den |-> d]

\* a/b > p/q for positive denominators
RatioGT(r, p, q) == r.num * q > p * r.den

\* A scorer without the guard on missing arguments
calculateSimilarity_noGuard(str1, str2) ==
    LET s1 == Trim(ToLower(str1))
        s2 == Trim(ToLower(str2))
    IN  IF s1 = s2 THEN Ratio(1, 1)
        ELSE LET maxLength == Max(Len(s1), Len(s2))
             IN  Ratio(maxLength - Levenshtein(s1, s2), maxLength)

calculateSimilarity(str1, str2) ==
    IF ~Truthy(str1) \/ ~Truthy(str2) THEN Ratio(0, 1)
    ELSE LET s1 == Trim(ToLower(str1))
             s2 == Trim(ToLower(str2))
         IN  IF s1 = s2 THEN Ratio(1, 1)
             ELSE LET maxLength == Max(Len(s1), Len(s2))
                  IN  Ratio(maxLength - Levenshtein(s1, s2), maxLength)

\* phone.replace(/\D/g, '')
StripNonDigits(phone) == SelectSeq(phone, LAMBDA c : c \in Digits)

\* A normalizer that drops a leading 1 from any number of 11 or more digits
normalizePhoneNumber_anyLength(phone) ==
    IF ~Truthy(phone) THEN <<>>
    ELSE LET cleaned == StripNonDigits(phone)
         IN  IF Len(cleaned) >= 11 /\ StartsWith(cleaned, <<"1">>)
             THEN SubSeq(cleaned, 2, Len(cleaned))
             ELSE cleaned

normalizePhoneNumber(phone) ==
    IF ~Truthy(phone) THEN <<>>
    ELSE LET cleaned == StripNonDigits(phone)
         IN  IF Len(cleaned) = 11 /\ StartsWith(cleaned, <<"1">>)
             THEN SubSeq(cleaned, 2, Len(cleaned))
             ELSE cleaned

\* A comparison without the substring tests
arePhoneNumbersSimilar_noSubstring(phone1, phone2) ==
    IF ~Truthy(phone1) \/ ~Truthy(phone2) THEN FALSE
    ELSE LET normalized1 == normalizePhoneNumber(phone1)
             normalized2 == normalizePhoneNumber(phone2)
         IN  \/ normalized1 = normalized2
             \/ RatioGT(calculateSimilarity(normalized1, normalized2), 8, 10)

arePhoneNumbersSimilar(phone1, phone2) ==
    IF ~Truthy(phone1) \/ ~Truthy(phone2) THEN FALSE
    ELSE LET normalized1 == normalizePhoneNumber(phone1)
             normalized2 == normalizePhoneNumber(phone2)
         IN  \/ normalized1 = normalized2
             \/ Includes(normalized1, normalized2)
             \/ Includes(normalized2, normalized1)
             \/ RatioGT(calculateSimilarity(normalized1, normalized2), 8, 10)

areNamesSimilar(name1, name2) ==
    IF ~Truthy(name1) \/ ~Truthy(name2) THEN FALSE
    ELSE RatioGT(calculateSimilarity(name1, name2), 7, 10)

areEmailsSimilar(email1, email2) ==
    IF ~Truthy(email1) \/ ~Truthy(email2) THEN FALSE
    ELSE IF ToLower(email1) = ToLower(email2) THEN TRUE
    ELSE LET domain1 == At(Split(email1, <<"@">>), 2)
             domain2 == At(Split(email2, <<"@">>), 2)
         IN  IF Truthy(domain1) /\ Truthy(domain2) /\ domain1 = domain2
             THEN RatioGT(calculateSimilarity(Split(email1, <<"@">>)[1],
                                              Split(email2, <<"@">>)[1]), 8, 10)
             ELSE FALSE

(***************************************************************************)
(* Normalizers (services/contactParser)                                    *)
(***************************************************************************)
\* A formatter without the generic international branch
formatPhoneNumber_noInternational(phone) ==
    IF ~Truthy(phone) THEN NULL
    ELSE LET cleaned == StripNonDigits(phone)
         IN  IF Len(cleaned) = 10 THEN <<"+", "1">> \o cleaned
             ELSE IF Len(cleaned) = 11 /\ StartsWith(cleaned, <<"1">>)
                  THEN <<"+">> \o cleaned
             ELSE IF Len(cleaned) = 12 /\ StartsWith(cleaned, <<"9", "1">>)
                  THEN <<"+">> \o cleaned
             ELSE phone

\* A formatter that puts +1 before every number it takes for a US number
formatPhoneNumber_prefixAlways(phone) ==
    IF ~Truthy(phone) THEN NULL
    ELSE LET cleaned == StripNonDigits(phone)
         IN  IF Len(cleaned) = 10 THEN <<"+", "1">> \o cleaned
             ELSE IF Len(cleaned) = 11 /\ StartsWith(cleaned, <<"1">>)
                  THEN <<"+", "1">> \o cleaned
             ELSE IF Len(cleaned) = 12 /\ StartsWith(cleaned, <<"9", "1">>)
                  THEN <<"+">> \o cleaned
             ELSE IF Len(cleaned) >= 10 THEN <<"+">> \o cleaned
             ELSE phone

formatPhoneNumber(phone) ==
    IF ~Truthy(phone) THEN NULL
    ELSE LET cleaned == StripNonDigits(phone)
         IN  IF Len(cleaned) = 10 THEN <<"+", "1">> \o cleaned
             ELSE IF Len(cleaned) = 11 /\ StartsWith(cleaned, <<"1">>)
                  THEN <<"+">> \o cleaned
             ELSE IF Len(cleaned) = 12 /\ StartsWith(cleaned, <<"9", "1">>)
                  THEN <<"+">> \o cleaned
             ELSE IF Len(cleaned) >= 10 THEN <<"+">> \o cleaned
             ELSE phone

\* /^[^\s@]+@[^\s@]+\.[^\s@]+$/.test(email): no whitespace, exactly one '@'
\* with text before it, and after it a '.' with text on both sides
EmailRegexTest(email) ==
    /\ \A i \in 1..Len(email) : email[i] \notin Whitespace
    /\ Cardinality({i \in 1..Len(email) : email[i] = "@"}) = 1
    /\ LET at == CHOOSE i \in 1..Len(email) : email[i] = "@"
       IN  /\ at > 1
           /\ \E d \in (at + 2)..(Len(email) - 1) : email[d] = "."

validateEmail(email) ==
    IF ~Truthy(email) THEN NULL
    ELSE IF EmailRegexTest(email) THEN email ELSE NULL

detectRelationshipType(text) ==
    IF ~Truthy(text) THEN <<"O", "t", "h", "e", "r">>
    ELSE LET lowerText == ToLower(text)
         IN  IF \/ Includes(lowerText, <<"c", "l", "i", "e", "n", "t">>)
                \/ Includes(lowerText, <<"c", "u", "s", "t", "o", "m", "e", "r">>)
             THEN <<"C", "l", "i", "e", "n", "t">>
             ELSE IF \/ Includes(lowerText, <<"v", "e", "n", "d", "o", "r">>)
                     \/ Includes(lowerText, <<"s", "u", "p", "p", "l", "i", "e", "r">>)
             THEN <<"V", "e", "n", "d", "o", "r">>
             ELSE IF \/ Includes(lowerText, <<"l", "e", "a", "d">>)
                     \/ Includes(lowerText, <<"p", "r", "o", "s", "p", "e", "c", "t">>)
             THEN <<"L", "e", "a", "d">>
             ELSE IF \/ Includes(lowerText, <<"p", "a", "r", "t", "n", "e", "r">>)
                     \/ Includes(lowerText, <<"a", "s", "s", "o", "c", "i", "a", "t", "e">>)
             THEN <<"P", "a", "r", "t", "n", "e", "r">>
             ELSE <<"O", "t", "h", "e", "r">>

parseName(nameText) ==
    IF ~Truthy(nameText) THEN [first_name |-> <<>>, last_name |-> <<>>]
    ELSE LET name == Trim(nameText)
             parts == SplitWs(name)
         IN  IF Len(parts) = 1
             THEN [first_name |-> parts[1], last_name |-> <<>>]
             ELSE IF Len(parts) = 2
             THEN [first_name |-> parts[1], last_name |-> parts[2]]
             ELSE [first_name |-> parts[1],
                   last_name |-> Join(Tail(parts), <<" ">>)]

(***************************************************************************)
(* Line parser (services/contactParser)                                    *)
(***************************************************************************)
\* A parsed contact.  A key the strategy never set (undefined) is NULL.
Contact(fn, ln, ph, em, rt) ==
    [first_name |-> fn, last_name |-> ln, phone_number |-> ph,
     email |-> em, relationship_type |-> rt]

\* A strategy returns null (None) or a contact (Some(c))
None == <<>>

Some(c) == <<c>>

\* Strategies 1 and 2: "Name<sep>Phone<sep>Email<sep>Type"
parseSeparated(line, sep) ==
    LET parts == [i \in 1..Len(Split(line, sep)) |-> Trim(Split(line, sep)[i])]
    IN  IF Len(parts) < 2 THEN None
        ELSE LET nameInfo == parseName(parts[1])
             IN  Some(Contact(
                     nameInfo.first_name,
                     nameInfo.last_name,
                     IF Truthy(At(parts, 2)) THEN formatPhoneNumber(parts[2]) ELSE NULL,
                     IF Truthy(At(parts, 3)) THEN validateEmail(parts[3]) ELSE NULL,
                     IF Truthy(At(parts, 4)) THEN detectRelationshipType(parts[4]) ELSE NULL))

parseCommaSeparated(line) == parseSeparated(line, <<",">>)

parseTabSeparated(line) == parseSeparated(line, <<"\t">>)

\* /[\d\-\(\)\s]/
PhoneishChars == Digits \cup {"-", "(", ")"} \cup Whitespace

RelationshipKeywords ==
    { <<"c", "l", "i", "e", "n", "t">>, <<"v", "e", "n", "d", "o", "r">>,
      <<"l", "e", "a", "d">>, <<"p", "a", "r", "t", "n", "e", "r">>,
      <<"o", "t", "h", "e", "r">> }

ToUpperChar(c) ==
    IF \E i \in 1..26 : Lower[i] = c
    THEN Upper[CHOOSE i \in 1..26 : Lower[i] = c]
    ELSE c

\* part.charAt(0).toUpperCase() + part.slice(1).toLowerCase()
TitleCase(part) ==
    IF Len(part) = 0 THEN part
    ELSE <<ToUpperChar(part[1])>> \o ToLower(Tail(part))

\* The token loop of parseSpaceSeparated: each token goes to the first
\* branch whose test it passes.
RECURSIVE ClassifyTokens(_, _, _)
ClassifyTokens(parts, i, acc) ==
    IF i > Len(parts) THEN acc
    ELSE LET part == parts[i]
         IN  IF ~Truthy(acc.phoneNumber) /\ \E k \in 1..Len(part) : part[k] \in PhoneishChars
             THEN ClassifyTokens(parts, i + 1,
                      [acc EXCEPT !.phoneNumber = formatPhoneNumber(part)])
             ELSE IF ~Truthy(acc.email) /\ Includes(part, <<"@">>)
             THEN ClassifyTokens(parts, i + 1,
                      [acc EXCEPT !.email = validateEmail(part)])
             ELSE IF ToLower(part) \in RelationshipKeywords
             THEN ClassifyTokens(parts, i + 1,
                      [acc EXCEPT !.relationshipType = TitleCase(part)])
             ELSE ClassifyTokens(parts, i + 1,
                      [acc EXCEPT !.nameParts = Append(@, part)])

\* A space strategy that accepts lines of two tokens
parseSpaceSeparated_twoTokens(line) ==
    LET parts == SplitWs(line)
    IN  IF Len(parts) < 2 THEN None
        ELSE LET acc == ClassifyTokens(parts, 1,
                            [nameParts |-> <<>>, phoneNumber |-> NULL, email |-> NULL,
                             relationshipType |-> <<"O", "t", "h", "e", "r">>])
             IN  IF Len(acc.nameParts) = 0 \/ ~Truthy(acc.phoneNumber) THEN None
                 ELSE LET nameInfo == parseName(Join(acc.nameParts, <<" ">>))
                      IN  Some(Contact(nameInfo.first_name, nameInfo.last_name,
                                       acc.phoneNumber, acc.email, acc.relationshipType))

\* Strategy 3
parseSpaceSeparated(line) ==
    LET parts == SplitWs(line)
    IN  IF Len(parts) < 3 THEN None
        ELSE LET acc == ClassifyTokens(parts, 1,
                            [nameParts |-> <<>>, phoneNumber |-> NULL, email |-> NULL,
                             relationshipType |-> <<"O", "t", "h", "e", "r">>])
             IN  IF Len(acc.nameParts) = 0 \/ ~Truthy(acc.phoneNumber) THEN None
                 ELSE LET nameInfo == parseName(Join(acc.nameParts, <<" ">>))
                      IN  Some(Contact(nameInfo.first_name, nameInfo.last_name,
                                       acc.phoneNumber, acc.email, acc.relationshipType))

\* A backtracking matcher for a regular expression that is a sequence of
\* greedy items  class{min,max}.  MatchItems is the position after the first
\* match (in the engine's priority order) of items k.. at pos, or 0.
Item(cls, lo, hi) == [cls |-> cls, min |-> lo, max |-> hi]

RECURSIVE RunLength(_, _, _, _)
RunLength(s, pos, cls, cap) ==
    IF cap = 0 \/ pos > Len(s) \/ s[pos] \notin cls THEN 0
    ELSE 1 + RunLength(s, pos + 1, cls, cap - 1)

RECURSIVE MatchItems(_, _, _, _)
RECURSIVE TryCount(_, _, _, _, _)
TryCount(items, k, s, pos, n) ==
    IF n < items[k].min THEN 0
    ELSE LET r == MatchItems(items, k + 1, s, pos + n)
         IN  IF r # 0 THEN r ELSE TryCount(items, k, s, pos, n - 1)

MatchItems(items, k, s, pos) ==
    IF k > Len(items) THEN pos
    ELSE TryCount(items, k, s, pos, RunLength(s, pos, items[k].cls, items[k].max))

\* alts are the alternatives of the expression in priority order
RECURSIVE MatchAlts(_, _, _, _)
MatchAlts(alts, a, s, pos) ==
    IF a > Len(alts) THEN 0
    ELSE LET r == MatchItems(alts[a], 1, s, pos)
         IN  IF r # 0 THEN r ELSE MatchAlts(alts, a + 1, s, pos)

\* line.match(/.../g)[0]: the leftmost match, or NULL when match() is null
RECURSIVE FirstMatchFrom(_, _, _)
FirstMatchFrom(alts, s, pos) ==
    IF pos > Len(s) THEN NULL
    ELSE LET r == MatchAlts(alts, 1, s, pos)
         IN  IF r # 0 THEN SubSeq(s, pos, r - 1)
             ELSE FirstMatchFrom(alts, s, pos + 1)

FirstMatch(alts, s) == FirstMatchFrom(alts, s, 1)

SepChars == {"-", "."} \cup Whitespace

\* (\+?\d{1,3}[-.\s]?)?
CountryCodeItems ==
    << Item({"+"}, 0, 1), Item(Digits, 1, 3), Item(SepChars, 0, 1) >>

\* \(?([0-9]{3})\)?[-.\s]?([0-9]{3})[-.\s]?([0-9]{4})
ParenPhoneItems ==
    << Item({"("}, 0, 1), Item(Digits, 3, 3), Item({")"}, 0, 1),
       Item(SepChars, 0, 1), Item(Digits, 3, 3), Item(SepChars, 0, 1),
       Item(Digits, 4, 4) >>

\* ([0-9]{3})[-.\s]?([0-9]{3})[-.\s]?([0-9]{4})
PlainPhoneItems ==
    << Item(Digits, 3, 3), Item(SepChars, 0, 1), Item(Digits, 3, 3),
       Item(SepChars, 0, 1), Item(Digits, 4, 4) >>

\* phonePatterns: the optional country-code group is tried before its omission
phonePatterns ==
    << << CountryCodeItems \o ParenPhoneItems, ParenPhoneItems >>,
       << CountryCodeItems \o PlainPhoneItems, PlainPhoneItems >> >>

\* /[a-zA-Z0-9._%+-]+@[a-zA-Z0-9.-]+\.[a-zA-Z]{2,}/g on a line of length n
emailPattern(n) ==
    << << Item(Letters \cup Digits \cup {".", "_", "%", "+", "-"}, 1, n),
          Item({"@"}, 1, 1),
          Item(Letters \cup Digits \cup {".", "-"}, 1, n),
          Item({"."}, 1, 1),
          Item(Letters, 2, n) >> >>

\* The loop over phonePatterns: the first pattern that matches decides
RECURSIVE ExtractPhone(_, _)
ExtractPhone(line, p) ==
    IF p > Len(phonePatterns) THEN NULL
    ELSE LET match == FirstMatch(phonePatterns[p], line)
         IN  IF match # NULL THEN formatPhoneNumber(match)
             ELSE ExtractPhone(line, p + 1)

\* Strategy 4
parseByPattern(line) ==
    LET phoneNumber == ExtractPhone(line, 1)
        emailMatch  == FirstMatch(emailPattern(Len(line)), line)
        email       == IF emailMatch # NULL THEN validateEmail(emailMatch) ELSE NULL
        text1       == IF Truthy(phoneNumber)
                       THEN Trim(RemoveFirst(line, phoneNumber)) ELSE line
        text2       == IF Truthy(email)
                       THEN Trim(RemoveFirst(text1, email)) ELSE text1
        nameText    == Trim(RemoveChars(text2, {",", ";"}))
    IN  IF ~Truthy(nameText) \/ ~Truthy(phoneNumber) THEN None
        ELSE LET nameInfo == parseName(nameText)
             IN  Some(Contact(nameInfo.first_name, nameInfo.last_name,
                              phoneNumber, email, <<"O", "t", "h", "e", "r">>))

StrategyNames == <<"comma", "tab", "space", "pattern">>

\* The first strategy whose result is not null, or the last one
FirstParsed(results) ==
    IF \E k \in 1..Len(results) : results[k] # None
    THEN CHOOSE k \in 1..Len(results) :
            /\ results[k] # None
            /\ \A j \in 1..(k - 1) : results[j] = None
    ELSE Len(results)

\* What parseContactLine returns and the strategies it called, given what
\* each strategy returns for the line
TraceOf(results) ==
    [result |-> results[FirstParsed(results)],
     tried |-> SubSeq(StrategyNames, 1, FirstParsed(results))]

\* parseContactLine calling the space strategy before the comma strategy
parseContactLineTrace_spaceFirst(line) ==
    TraceOf(<<parseSpaceSeparated(line), parseTabSeparated(line),
              parseCommaSeparated(line), parseByPattern(line)>>)

\* parseContactLine with the strategies it called, in call order
parseContactLineTrace(line) ==
    TraceOf(<<parseCommaSeparated(line), parseTabSeparated(line),
              parseSpaceSeparated(line), parseByPattern(line)>>)

parseContactLine(line) == parseContactLineTrace(line).result

(***************************************************************************)
(* Duplicate detector (services/duplicateDetector.js)                      *)
(*                                                                         *)
(* A stored row is a record with the columns of the contacts table.  The   *)
(* scores 0.4, 0.4, 0.3 and the thresholds 0.4, 0.8 are counted in tenths: *)
(* every sum of these weights compares with the thresholds in IEEE doubles *)
(* as it does in tenths (0.4 + 0.4 = 0.8 and 0.4 + 0.3 = 0.7 exactly).     *)
(***************************************************************************)
PhoneWeight == 4

EmailWeight == 4

NameWeight == 3

DuplicateThreshold == 4

ExactThreshold == 8

\* `${c.first_name || ''} ${c.last_name || ''}`.trim()
FullName(c) ==
    Trim((IF Truthy(c.first_name) THEN c.first_name ELSE <<>>) \o <<" ">>
         \o (IF Truthy(c.last_name) THEN c.last_name ELSE <<>>))

\* column LIKE '%inner%' for an inner text of digits; NULL LIKE x is not true
SqlLikeContains(col, inner) == col # NULL /\ Includes(col, inner)

\* column = value; a comparison with NULL is not true
SqlEq(col, val) == col # NULL /\ val # NULL /\ col = val

\* LOWER(column) = LOWER(value)
SqlLowerEq(col, val) == col # NULL /\ val # NULL /\ ToLower(col) = ToLower(val)

\* CONCAT(first_name, ' ', last_name): CONCAT reads NULL as ''
SqlConcatName(row) ==
    (IF row.first_name = NULL THEN <<>> ELSE row.first_name) \o <<" ">>
    \o (IF row.last_name = NULL THEN <<>> ELSE row.last_name)

PhoneCondition(contact, row) ==
    \/ SqlEq(row.phone_number, contact.phone_number)
    \/ SqlLikeContains(row.phone_number, normalizePhoneNumber(contact.phone_number))
    \/ SqlLikeContains(row.phone_number, StripNonDigits(contact.phone_number))

EmailCondition(contact, row) == SqlEq(row.email, contact.email)

NameCondition(contact, row) ==
    \/ SqlLowerEq(row.first_name,
                  IF Truthy(contact.first_name) THEN contact.first_name ELSE <<>>)
    \/ SqlLowerEq(row.last_name,
                  IF Truthy(contact.last_name) THEN contact.last_name ELSE <<>>)
    \/ ToLower(SqlConcatName(row)) = ToLower(FullName(contact))

\* The WHERE clause without the exclusion of excludeId
PrefilterWhere_noExclusion(contact, excludeId, row) ==
    \/ ~Truthy(contact.phone_number) /\ ~Truthy(contact.email)
          /\ ~Truthy(FullName(contact))
    \/ Truthy(contact.phone_number) /\ PhoneCondition(contact, row)
    \/ Truthy(contact.email) /\ EmailCondition(contact, row)
    \/ Truthy(FullName(contact)) /\ NameCondition(contact, row)

\* The WHERE clause detectDuplicates builds: 1=1, the exclusion (excludeId 0
\* is "no excludeId": if (excludeId) is false) and the OR of the conditions
\* it pushed (none pushed: no further restriction)
PrefilterWhere(contact, excludeId, row) ==
    LET usePhone == Truthy(contact.phone_number)
        useEmail == Truthy(contact.email)
        useName  == /\ (Truthy(contact.first_name) \/ Truthy(contact.last_name))
                    /\ Truthy(FullName(contact))
    IN  /\ (excludeId # 0 => row.id # excludeId)
        /\ \/ ~usePhone /\ ~useEmail /\ ~useName
           \/ usePhone /\ PhoneCondition(contact, row)
           \/ useEmail /\ EmailCondition(contact, row)
           \/ useName /\ NameCondition(contact, row)

\* The orders in which a query may return the rows S under
\* ORDER BY created_at DESC: rows of equal created_at come in any order
OrderedByCreatedDesc(S) ==
    { q \in [1..Cardinality(S) -> S] :
        /\ \A i, j \in 1..Cardinality(S) : i # j => q[i] # q[j]
        /\ \A i, j \in 1..Cardinality(S) :
               i < j => q[i].created_at >= q[j].created_at }

PrefilterResults(contact, excludeId, rows) ==
    OrderedByCreatedDesc({r \in rows : PrefilterWhere(contact, excludeId, r)})

\* The scoring loop with an email match weighing 0.3 instead of 0.4
similarityScore_emailWeaker(contact, existingContact) ==
    (IF /\ Truthy(contact.phone_number)
        /\ Truthy(existingContact.phone_number)
        /\ arePhoneNumbersSimilar(contact.phone_number, existingContact.phone_number)
     THEN PhoneWeight ELSE 0)
    + (IF /\ Truthy(contact.email)
          /\ Truthy(existingContact.email)
          /\ areEmailsSimilar(contact.email, existingContact.email)
       THEN NameWeight ELSE 0)
    + (IF /\ Truthy(FullName(existingContact))
          /\ Truthy(FullName(contact))
          /\ areNamesSimilar(FullName(existingContact), FullName(contact))
       THEN NameWeight ELSE 0)

\* The body of the loop over result.rows: the score of one existing contact
similarityScore(contact, existingContact) ==
    LET phonePart ==
            IF /\ Truthy(contact.phone_number)
               /\ Truthy(existingContact.phone_number)
               /\ arePhoneNumbersSimilar(contact.phone_number,
                                         existingContact.phone_number)
            THEN PhoneWeight ELSE 0
        emailPart ==
            IF /\ Truthy(contact.email)
               /\ Truthy(existingContact.email)
               /\ areEmailsSimilar(contact.email, existingContact.email)
            THEN EmailWeight ELSE 0
        existingFullName == FullName(existingContact)
        newFullName == FullName(contact)
        namePart ==
            IF /\ Truthy(existingFullName)
               /\ Truthy(newFullName)
               /\ areNamesSimilar(existingFullName, newFullName)
            THEN NameWeight ELSE 0
    IN  phonePart + emailPart + namePart

\* A match record that is exact from 0.7 on
DuplicateMatch_exactAtSeven(contact, existingContact) ==
    [existingContact |-> existingContact,
     similarityScore |-> similarityScore(contact, existingContact),
     isExactMatch    |-> similarityScore(contact, existingContact) >= 7]

DuplicateMatch(contact, existingContact) ==
    [existingContact |-> existingContact,
     similarityScore |-> similarityScore(contact, existingContact),
     isExactMatch    |-> similarityScore(contact, existingContact) >= ExactThreshold]

\* duplicates.push for every row whose score reaches the threshold
RECURSIVE CollectDuplicates(_, _, _)
CollectDuplicates(contact, resultRows, i) ==
    IF i > Len(resultRows) THEN <<>>
    ELSE IF similarityScore(contact, resultRows[i]) >= DuplicateThreshold
         THEN <<DuplicateMatch(contact, resultRows[i])>>
              \o CollectDuplicates(contact, resultRows, i + 1)
         ELSE CollectDuplicates(contact, resultRows, i + 1)

\* Array.prototype.sort((a, b) => b.similarityScore - a.similarityScore):
\* stable, highest score first
RECURSIVE InsertByScore(_, _)
InsertByScore(sorted, d) ==
    IF Len(sorted) = 0 THEN <<d>>
    ELSE IF Head(sorted).similarityScore >= d.similarityScore
         THEN <<Head(sorted)>> \o InsertByScore(Tail(sorted), d)
         ELSE <<d>> \o sorted

RECURSIVE SortByScore(_, _, _)
SortByScore(ds, i, sorted) ==
    IF i > Len(ds) THEN sorted
    ELSE SortByScore(ds, i + 1, InsertByScore(sorted, ds[i]))

DetectionResult(duplicates) ==
    [hasDuplicates   |-> Len(duplicates) > 0,
     duplicates      |-> duplicates,
     totalDuplicates |-> Len(duplicates)]

\* A detector that returns the matches in the order of the query, unsorted
detectDuplicates_unsorted(contact, queryOk, resultRows) ==
    IF queryOk
    THEN DetectionResult(CollectDuplicates(contact, resultRows, 1))
    ELSE DetectionResult(<<>>)

\* detectDuplicates, given what executeQuery did: it resolved with resultRows
\* (queryOk) or rejected.  The catch block logs a rejection and the function
\* returns the duplicates collected so far, which is none.
detectDuplicates(contact, queryOk, resultRows) ==
    IF queryOk
    THEN DetectionResult(SortByScore(CollectDuplicates(contact, resultRows, 1), 1, <<>>))
    ELSE DetectionResult(<<>>)

(***************************************************************************)
(* Batch parser (services/contactParser)                                   *)
(***************************************************************************)
\* rawData.split('\n').filter(line => line.trim())
NonBlankLines(rawData) ==
    SelectSeq(Split(rawData, <<"\n">>), LAMBDA line : Truthy(Trim(line)))

\* The test of the basic path: contact && contact.first_name && contact.phone_number
KeptByBasicPath(parsed) ==
    /\ parsed # None
    /\ Truthy(parsed[1].first_name)
    /\ Truthy(parsed[1].phone_number)

\* contacts.push(contact) when the line parsed to a contact that is kept
PushIfKept(contacts, parsed) ==
    IF KeptByBasicPath(parsed) THEN Append(contacts, parsed[1]) ELSE contacts

\* A loop in which a line that is not kept discards the candidates collected
\* before it
ParseLine_discarding(contacts, line) ==
    IF ~Truthy(line) THEN contacts
    ELSE IF KeptByBasicPath(parseContactLine(line))
    THEN Append(contacts, parseContactLine(line)[1])
    ELSE <<>>

\* One pass of the loop body for the trimmed line.  No call made inside the
\* try block throws on a string, so the catch block is never entered.
ParseLine(contacts, line) ==
    IF ~Truthy(line) THEN contacts
    ELSE PushIfKept(contacts, parseContactLine(line))

\* The loop of parseRawContactData over lines[i..]
RECURSIVE ParseLinesFrom(_, _, _)
ParseLinesFrom(lines, i, contacts) ==
    IF i > Len(lines) THEN contacts
    ELSE ParseLinesFrom(lines, i + 1, ParseLine(contacts, Trim(lines[i])))

parseRawContactData(rawData) == ParseLinesFrom(NonBlankLines(rawData), 1, <<>>)

\* validateParsedContact: the length tested is that of the phone string
validateParsedContact(contact) ==
    /\ Truthy(contact.first_name)
    /\ Truthy(contact.phone_number)
    /\ Len(contact.phone_number) >= 10
    /\ (Truthy(contact.email) => Includes(contact.email, <<"@">>))

\* The parts of line.split(' - ').map(part => part.trim()) as a contact; a
\* key that is not assigned is undefined
AlternativeContact(dashSeparated) ==
    Contact(parseName(dashSeparated[1]).first_name,
            parseName(dashSeparated[1]).last_name,
            IF Truthy(At(dashSeparated, 2))
            THEN formatPhoneNumber(dashSeparated[2]) ELSE NULL,
            IF Truthy(At(dashSeparated, 3))
            THEN validateEmail(dashSeparated[3]) ELSE NULL,
            NULL)

TrimAll(parts) == [k \in 1..Len(parts) |-> Trim(parts[k])]

parseAlternativeFormats(line) ==
    IF Len(Split(line, <<" ", "-", " ">>)) >= 2
    THEN Some(AlternativeContact(TrimAll(Split(line, <<" ", "-", " ">>))))
    ELSE None

\* let contact = parseContactLine(line); if (!contact) contact = parseAlternativeFormats(line)
OrAlternative(parsed, line) ==
    IF parsed = None THEN parseAlternativeFormats(line) ELSE parsed

\* The test of the enhanced path: contact && validateParsedContact(contact)
KeptByEnhancedPath(parsed) ==
    /\ parsed # None
    /\ validateParsedContact(parsed[1])

PushIfValid(contacts, parsed) ==
    IF KeptByEnhancedPath(parsed) THEN Append(contacts, parsed[1]) ELSE contacts

\* One pass of the loop body of parseRawContactDataEnhanced
ParseLineEnhanced(contacts, line) ==
    IF ~Truthy(line) THEN contacts
    ELSE PushIfValid(contacts, OrAlternative(parseContactLine(line), line))

(***************************************************************************)
(* Merger (services/duplicateDetector.js)                                  *)
(***************************************************************************)
\* `${duplicate.id}` for the ids of the model
IdText(id) == << <<"0", "1", "2", "3", "4", "5", "6", "7", "8", "9">>[(id % 10) + 1] >>

\* `Merged from contact ID ${duplicate.id}: ${duplicate.notes}`
MergedNote(duplicate) ==
    <<"M", "e", "r", "g", "e", "d", " ", "f", "r", "o", "m", " ", "c", "o", "n", "t", "a", "c", "t", " ", "I", "D", " ">> \o IdText(duplicate.id) \o <<":", " ">> \o duplicate.notes

\* A merge in which a duplicate's non-empty value overwrites the primary's
FillIfMissing_overwrite(mine, theirs) ==
    IF Truthy(theirs) THEN theirs ELSE mine

\* if (!mergedContact.field && duplicate.field) mergedContact.field = duplicate.field
FillIfMissing(mine, theirs) ==
    IF ~Truthy(mine) /\ Truthy(theirs) THEN theirs ELSE mine

\* The body of the loop over duplicatesResult.rows
MergeOne(mergedContact, duplicate) ==
    [mergedContact EXCEPT
        !.first_name = FillIfMissing(@, duplicate.first_name),
        !.last_name = FillIfMissing(@, duplicate.last_name),
        !.phone_number = FillIfMissing(@, duplicate.phone_number),
        !.email = FillIfMissing(@, duplicate.email),
        !.relationship_type = FillIfMissing(@, duplicate.relationship_type),
        !.data_owner = FillIfMissing(@, duplicate.data_owner),
        !.notes = IF Truthy(duplicate.notes)
                  THEN IF Truthy(@)
                       THEN @ \o <<"\n", "\n">> \o MergedNote(duplicate)
                       ELSE MergedNote(duplicate)
                  ELSE @]

RECURSIVE MergeRows(_, _, _)
MergeRows(mergedContact, duplicateRows, i) ==
    IF i > Len(duplicateRows) THEN mergedContact
    ELSE MergeRows(MergeOne(mergedContact, duplicateRows[i]), duplicateRows, i + 1)

\* let mergedContact = { ...primaryContact }; for (const duplicate of rows) ...
ComputeMerged(primaryContact, duplicateRows) ==
    MergeRows(primaryContact, duplicateRows, 1)

\* A lookup that never reports a missing primary
PrimaryNotFound_never(primaryRows) == FALSE

\* if (primaryResult.rows.length === 0) throw new Error('Primary contact not found')
PrimaryNotFound(primaryRows) == primaryRows = {}

(***************************************************************************)
(* Inputs of the model                                                     *)
(***************************************************************************)
MaxRequests == 2

MaxFaults == 1

MaxLines == 2

MaxDupIds == 2

Procs == {"p1", "p2"}

\* Lines a caller may paste into the raw import
RawLines ==
    { <<"A", "n", "n", " ", "L", "e", "e", ",", " ", "1", "2", "3", "4", "5", "6", "7", "8", "9", "0", ",", " ", "a", "n", "n", "@", "x", ".", "c", "o", "m">>,
      <<"B", "o", "b", ",", " ", "1", "2", "3">> }

\* Every text of 1..MaxLines lines joined by newlines
RECURSIVE TextsOfLength(_)
TextsOfLength(n) ==
    IF n = 1 THEN RawLines
    ELSE { text \o <<"\n">> \o line : text \in TextsOfLength(n - 1), line \in RawLines }

\* Lines given to the batch parsers: one for each strategy, a line no
\* strategy parses, lines that fail the validity tests, a line whose phone
\* has nine digits and two dashes, a blank line, a dash-separated line only
\* the alternative formats parse, and a line "Name - Phone - Email"
ParseLineSet ==
    { <<"A", "n", "n", " ", "L", "e", "e", ",", " ", "1", "2", "3", "4", "5", "6", "7", "8", "9", "0", ",", " ", "a", "n", "n", "@", "x", ".", "c", "o", "m">>,
      <<"B", "o", "b", ",", " ", "1", "2", "3">>,
      <<"B", "o", "b", ",", " ", "1", "2", "3", "-", "4", "5", "6", "-", "7", "8", "9">>,
      <<",", " ", "1", "2", "3", "4", "5", "6", "7", "8", "9", "0">>,
      <<"C", "y", "\t", "1", "2", "3", "4", "5", "6", "7", "8", "9", "0">>,
      <<"D", "e", "e", " ", "1", "2", "3", "4", "5", "6", "7", "8", "9", "0", " ", "d", "@", "x", ".", "i", "o">>,
      <<"E", "v", "e", " ", "1", "2", "3", "4", "5", "6", "7", "8", "9", "0">>,
      <<"h", "e", "l", "l", "o">>,
      <<" ">>,
      <<"c", "l", "i", "e", "n", "t", " ", "-", " ", "a", "@", "b", "c", "d", "e", "f", "g", ".", "c", "o", "m">>,
      <<"D", "e", "e", " ", "-", " ", "1", "2", "3", "4", "5", "6", "7", "8", "9", "0", " ", "-", " ", "d", "@", "x", ".", "i", "o">> }

RECURSIVE ParseTextsOfLength(_)
ParseTextsOfLength(n) ==
    IF n = 1 THEN ParseLineSet
    ELSE { text \o <<"\n">> \o line :
             text \in ParseTextsOfLength(n - 1), line \in ParseLineSet }

\* The texts given to the batch parsers: 1..MaxLines lines
ParseTexts == UNION { ParseTextsOfLength(n) : n \in 1..MaxLines }

\* The bodies of POST /import/raw: no text, or 1..MaxLines lines
RawTexts == {<<>>} \cup UNION { TextsOfLength(n) : n \in 1..MaxLines }

\* Request bodies of POST / and PUT /:id
Body(fn, ln, ph, em, owner, notes) ==
    [first_name |-> fn, last_name |-> ln, phone_number |-> ph, email |-> em,
     relationship_type |-> <<"C", "l", "i", "e", "n", "t">>, data_owner |-> owner,
     source |-> "Gmail", status |-> "Active", notes |-> notes]

Bodies ==
    { Body(<<"A", "n", "n">>, <<"L", "e", "e">>, <<"(", "1", "2", "3", ")", " ", "4", "5", "6", "-", "7", "8", "9", "0">>, <<"a", "n", "n", "@", "x", ".", "c", "o", "m">>, <<"m", "e">>, <<"v", "i", "p">>),
      Body(<<"B", "o", "b">>, <<>>, <<"(", "1", "2", "3", ")", " ", "4", "5", "6", "-", "7", "8", "9", "0">>, <<"a", "n", "n", "@", "x", ".", "c", "o", "m">>, NULL, NULL),
      Body(<<"B", "o", "b">>, <<>>, <<"+", "1", "1", "2", "3", "4", "5", "6", "7", "8", "9", "0">>, NULL, NULL, NULL),
      Body(<<>>, <<>>, <<"+", "1", "1", "2", "3", "4", "5", "6", "7", "8", "9", "0">>, NULL, NULL, NULL) }

\* Rows of an uploaded CSV file, keyed by the mapped column names
CsvRecord(fn, ln, ph, em) ==
    [first_name |-> fn, last_name |-> ln, phone_number |-> ph, email |-> em]

CsvRecords ==
    { CsvRecord(<<"A", "n", "n">>, <<"L", "e", "e">>, <<"1", "2", "3", "4", "5", "6", "7", "8", "9", "0">>, NULL),
      CsvRecord(<<"B", "o", "b">>, NULL, NULL, NULL) }

CsvFiles == UNION { [1..n -> CsvRecords] : n \in 1..MaxLines }

\* Arguments of calculateSimilarity: empty, blank, padded, mixed-case, equal
\* and different strings
SimilarityStrings ==
    { <<>>,
      <<" ">>,
      <<"a">>,
      <<"a", "b">>,
      <<"A", "b">>,
      <<" ", "a", "b">>,
      <<"a", "b", "c">>,
      <<"k", "i", "t", "t", "e", "n">>,
      <<"s", "i", "t", "t", "i", "n", "g">> }

\* Arguments of normalizePhoneNumber and formatPhoneNumber: no digits, fewer
\* than 10 digits, and 10 to 14 digits with and without punctuation and
\* country codes
PhoneStrings ==
    { <<>>,
      <<"1", "2", "3">>,
      <<"1", "2", "3", "-", "4", "5", "6", "-", "7", "8", "9">>,
      <<"1", "2", "3", "4", "5", "6", "7", "8", "9", "0">>,
      <<"(", "1", "2", "3", ")", " ", "4", "5", "6", "-", "7", "8", "9", "0">>,
      <<"1", "1", "2", "3", "4", "5", "6", "7", "8", "9", "0">>,
      <<"+", "1", " ", "(", "1", "2", "3", ")", " ", "4", "5", "6", "-", "7", "8", "9", "0">>,
      <<"2", "1", "2", "3", "4", "5", "6", "7", "8", "9", "0">>,
      <<"9", "1", "1", "2", "3", "4", "5", "6", "7", "8", "9", "0">>,
      <<"1", "1", "2", "3", "4", "5", "6", "7", "8", "9", "0", "1">>,
      <<"+", "4", "4", " ", "1", "2", "3", "4", " ", "5", "6", "7", "8", "9", "0", " ", "1", "2">>,
      <<"a", "b", "c">>,
      <<"1", "2", "3", "4", "5", "6", "7", "8", "9", "0", "1", "2", "3", "4">> }

\* Lines given to one strategy of the line parser: the example of the space
\* strategy, a name before and after a bare and a formatted phone number, a
\* phone number alone, a line without a phone, lines with a keyword, an
\* email, a second phone-shaped token, no name token, and punctuation
StrategyLines ==
    { <<"J", "a", "n", "e", " ", "S", "m", "i", "t", "h", " ", "9", "8", "7", "-", "6", "5", "4", "-", "3", "2", "1", "0">>,
      <<"J", "o", "h", "n", " ", "1", "2", "3", "4", "5", "6", "7", "8", "9", "0">>,
      <<"1", "2", "3", "4", "5", "6", "7", "8", "9", "0">>,
      <<"J", "o", "h", "n", " ", "+", "1", "1", "2", "3", "4", "5", "6", "7", "8", "9", "0">>,
      <<"h", "e", "l", "l", "o", " ", "w", "o", "r", "l", "d", " ", "a", "g", "a", "i", "n">>,
      <<"J", "a", "n", "e", " ", "c", "l", "i", "e", "n", "t", " ", "5", "5", "5", "-", "1", "2", "3", "4", " ", "j", "@", "x", ".", "i", "o", " ", "e", "x", "t", "r", "a", "-", "1">>,
      <<"5", "5", "5", "-", "1", "2", "3", "4", " ", "a", "@", "x", ".", "i", "o", " ", "v", "e", "n", "d", "o", "r">>,
      <<"A", "n", "n", ",", " ", "1", "2", "3", "-", "4", "5", "6", "-", "7", "8", "9", "0", ";", " ", "a", "n", "n", "@", "x", ".", "c", "o", "m">>,
      <<"+", "1", "1", "2", "3", "4", "5", "6", "7", "8", "9", "0", " ", "a", "@", "x", ".", "i", "o">>,
      <<"L", "E", "A", "D", " ", "B", "o", "b", " ", "5", "5", "5", "1", "2", "3", "4", "5", "6", "7", " ", "b", "a", "d", "@">> }

\* Contacts fetched from a Gmail or Zoho account, as parseGmailContact and
\* parseZohoContact return them ('' for a field the account does not hold)
SourceTuple(fn, ln, em, ph) ==
    [firstName |-> fn, lastName |-> ln, email |-> em, phoneNumber |-> ph]

SourceTuples ==
    { SourceTuple(<<"A", "n", "n">>, <<"L", "e", "e">>, <<>>, <<"1", "2", "3", "4", "5", "6", "7", "8", "9", "0">>),
      SourceTuple(<<>>, <<"L", "e", "e">>, <<"l", "e", "e", "@", "x", ".", "i", "o">>, <<"1", "2", "3", "4", "5", "6", "7", "8", "9", "0">>) }

SourceLists == UNION { [1..n -> SourceTuples] : n \in 1..MaxLines }

(***************************************************************************)
(* State: the contacts table and the requests in flight                    *)
(***************************************************************************)
VARIABLES
    store,      \* the rows of the contacts table
    nextId,     \* the id AUTOINCREMENT gives the next inserted row
    req,        \* per request slot: the handler's position and locals
    started,    \* requests started so far
    faults,     \* statements the database has rejected with an I/O error
    parser,     \* one call of a batch parser: its input, loop index and output
    call        \* one call of a pure function: its arguments and what it returned

vars == <<store, nextId, req, started, faults, parser, call>>

EmptyContact == Contact(NULL, NULL, NULL, NULL, NULL)

NoCheck ==
    [contact |-> EmptyContact, excludeId |-> 0, queryOk |-> TRUE, rows |-> <<>>,
     result |-> DetectionResult(<<>>)]

\* A free request slot.  id 0 is "no id" (ids start at 1).
Idle ==
    [kind |-> "idle", pc |-> "idle", response |-> "", issued |-> <<>>,
     id |-> 0, body |-> EmptyContact, contacts |-> <<>>, i |-> 0,
     duplicateCheck |-> NoCheck, validContacts |-> <<>>,
     duplicateResults |-> <<>>, insertedContacts |-> <<>>, errors |-> 0,
     insertId |-> 0, dupIds |-> <<>>, primaryContact |-> <<>>,
     duplicateRows |-> <<>>, mergedContact |-> <<>>, deletedCount |-> 0]

\* No batch parser call is being followed
NoParse ==
    [path |-> "none", rawData |-> <<>>, lines |-> <<>>, i |-> 1,
     contacts |-> <<>>, traces |-> <<>>, returned |-> FALSE]

\* The contacts table is empty and no request is in flight
EmptyServer ==
    /\ store = {}
    /\ nextId = 1
    /\ req = [p \in Procs |-> Idle]
    /\ started = 0
    /\ faults = 0

\* No pure function call is being followed
NoCall == [op |-> "none", args |-> <<>>, results |-> <<>>]

Init ==
    /\ EmptyServer
    /\ parser = NoParse
    /\ call = NoCall

\* executeQuery / executeSingleQuery resolve (TRUE) or reject with an I/O error
IoOutcomes == IF faults < MaxFaults THEN {TRUE, FALSE} ELSE {TRUE}

CountFault(ok) == faults' = IF ok THEN faults ELSE faults + 1

\* A handler that responds returns before any other callback runs: no
\* handler takes a step while a response is being sent
NoneResponding == \A q \in Procs : req[q].pc # "done"

\* A request takes a free slot; the slots are interchangeable, so the second
\* one is taken only while the first is busy
CanStart(p) ==
    /\ NoneResponding
    /\ req[p].kind = "idle"
    /\ started < MaxRequests
    /\ p = "p1" \/ req["p1"].kind # "idle"

At2(p, kind, pc) == NoneResponding /\ req[p].kind = kind /\ req[p].pc = pc

\* The handler of slot p moves to record r
Become(p, r) == req' = [req EXCEPT ![p] = r]

\* res.status(...).json(...) or a throw: the handler ends with this outcome
Respond(r, outcome) == [r EXCEPT !.pc = "done", !.response = outcome]

Issue(r, stmt) == [r EXCEPT !.issued = Append(@, stmt)]

RowsById(id) == {r \in store : r.id = id}

\* result.rows[0] of a query by id: undefined when no row was returned
FirstRow(rows) == IF rows = {} THEN NULL ELSE CHOOSE x \in rows : TRUE

MaxCreated == IF store = {} THEN 0
              ELSE CHOOSE m \in {r.created_at : r \in store} :
                       \A r \in store : r.created_at <= m

\* CURRENT_TIMESTAMP of a new row: the second of the newest row, or a later one
Timestamps == IF store = {} THEN {1} ELSE {MaxCreated, MaxCreated + 1}

\* UNIQUE(phone_number, email): NULLs are distinct from each other
UniqueViolation(rows, phone, email) ==
    \E r \in rows : SqlEq(r.phone_number, phone) /\ SqlEq(r.email, email)

\* first_name TEXT NOT NULL, phone_number TEXT NOT NULL
NotNullViolation(first, phone) == first = NULL \/ phone = NULL

Row(id, fn, ln, ph, em, rt, owner, source, status, notes, t) ==
    [id |-> id, first_name |-> fn, last_name |-> ln, phone_number |-> ph,
     email |-> em, relationship_type |-> rt, data_owner |-> owner,
     source |-> source, status |-> status, notes |-> notes, created_at |-> t]

\* One call of detectDuplicates: its arguments, what the query did and what
\* the function returned
DetectCall(contact, excludeId, ok, rows) ==
    [contact |-> contact, excludeId |-> excludeId, queryOk |-> ok, rows |-> rows,
     result |-> detectDuplicates(contact, ok, rows)]

QueryResults(contact, excludeId, ok) ==
    IF ok THEN PrefilterResults(contact, excludeId, store) ELSE {<<>>}

DetectContact(b) ==
    [phone_number |-> b.phone_number, email |-> b.email,
     first_name |-> b.first_name, last_name |-> b.last_name]

\* A contacts table of three contacts created one after another by POST /,
\* none a duplicate of another: the first has no last name, email, owner or
\* notes, the other two differ in all of them
MergeStore ==
    { Row(1, <<"C", "y">>, <<>>, <<"5", "5", "5", "0", "0", "0", "0", "0", "0", "1">>, NULL, <<"C", "l", "i", "e", "n", "t">>, NULL, "Gmail", "Active", NULL, 1),
      Row(2, <<"D", "e", "e">>, <<"L", "e", "e">>, <<"5", "5", "5", "0", "0", "0", "0", "0", "0", "2">>, <<"d", "@", "x", ".", "i", "o">>, <<"C", "l", "i", "e", "n", "t">>, NULL, "Gmail", "Active", <<"n", "2">>, 2),
      Row(3, <<"E", "v", "e">>, <<"R", "a", "y">>, <<"5", "5", "5", "0", "0", "0", "0", "0", "0", "3">>, <<"e", "@", "x", ".", "i", "o">>, <<"C", "l", "i", "e", "n", "t">>, <<"m", "e">>, "Gmail", "Active", <<"n", "3">>, 3) }

(***************************************************************************)
(* POST / : create one contact (routes/contacts)                           *)
(***************************************************************************)
\* A contacts table for calls of detectDuplicates: two rows share a creation
\* second, rows 1, 3 and 4 hold the same phone number (row 4 with its country
\* code) and rows 1, 2 and 4 the same name
DetectStore ==
    { Row(1, <<"A", "n", "n">>, <<"L", "e", "e">>, <<"1", "2", "3", "4", "5", "6", "7", "8", "9", "0">>, <<"a", "n", "n", "@", "x", ".", "c", "o", "m">>, <<"C", "l", "i", "e", "n", "t">>, NULL, "Gmail", "Active", NULL, 1),
      Row(2, <<"A", "n", "n">>, <<"L", "e", "e">>, <<"5", "5", "5", "0", "0", "0", "0", "0", "0", "2">>, NULL, <<"C", "l", "i", "e", "n", "t">>, NULL, "Gmail", "Active", NULL, 2),
      Row(3, <<"B", "o", "b">>, <<>>, <<"1", "2", "3", "4", "5", "6", "7", "8", "9", "0">>, <<"b", "o", "b", "@", "x", ".", "c", "o", "m">>, <<"C", "l", "i", "e", "n", "t">>, NULL, "Gmail", "Active", NULL, 2),
      Row(4, <<"A", "n", "n">>, <<"L", "e", "e">>, <<"+", "1", "1", "2", "3", "4", "5", "6", "7", "8", "9", "0">>, NULL, <<"C", "l", "i", "e", "n", "t">>, NULL, "Gmail", "Active", NULL, 3) }

\* The contact argument of detectDuplicates
Candidate(fn, ln, ph, em) ==
    [phone_number |-> ph, email |-> em, first_name |-> fn, last_name |-> ln]

\* Candidates: all three signals, phone and email only, phone only, email and
\* name, a phone without digits, and nothing in common with the table
DetectContacts ==
    { Candidate(<<"A", "n", "n">>, <<"L", "e", "e">>, <<"1", "2", "3", "4", "5", "6", "7", "8", "9", "0">>, <<"a", "n", "n", "@", "x", ".", "c", "o", "m">>),
      Candidate(<<"Z", "e", "d">>, <<>>, <<"1", "2", "3", "4", "5", "6", "7", "8", "9", "0">>, <<"a", "n", "n", "@", "x", ".", "c", "o", "m">>),
      Candidate(<<"Z", "e", "d">>, <<>>, <<"1", "2", "3", "4", "5", "6", "7", "8", "9", "0">>, NULL),
      Candidate(<<"B", "o", "b">>, <<>>, NULL, <<"b", "o", "b", "@", "x", ".", "c", "o", "m">>),
      Candidate(<<"A", "n", "n">>, <<"L", "e", "e">>, <<"n", "/", "a">>, NULL),
      Candidate(<<"Z", "e", "d">>, <<>>, <<"9", "9", "9", "0", "0", "0", "0", "0", "0", "0">>, <<"z", "@", "z", ".", "i", "o">>) }

\* validateContact: first_name and phone_number notEmpty (the other rules
\* hold of every body of the model)
ValidBody(b) == Truthy(b.first_name) /\ Truthy(b.phone_number)

StartCreate(p, b) ==
    /\ CanStart(p)
    /\ started' = started + 1
    /\ Become(p, IF ValidBody(b)
                 THEN [Idle EXCEPT !.kind = "create", !.pc = "check", !.body = b]
                 ELSE Respond([Idle EXCEPT !.kind = "create", !.body = b], "400"))
    /\ UNCHANGED <<store, nextId, faults, parser, call>>

CreateCheck(p) ==
    /\ At2(p, "create", "check")
    /\ \E ok \in IoOutcomes :
       \E rows \in QueryResults(DetectContact(req[p].body), 0, ok) :
          LET check == DetectCall(DetectContact(req[p].body), 0, ok, rows)
              r == [Issue(req[p], "select-candidates") EXCEPT !.duplicateCheck = check]
          IN  /\ CountFault(ok)
              /\ Become(p, IF check.result.hasDuplicates
                           THEN Respond(r, "409")
                           ELSE [r EXCEPT !.pc = "insert"])
    /\ UNCHANGED <<store, nextId, started, parser, call>>

\* A create that checks for duplicates again when it inserts
CreateInsert_recheck(p) ==
    /\ At2(p, "create", "insert")
    /\ \E ok \in IoOutcomes, t \in Timestamps :
          LET b == req[p].body
              r == Issue(req[p], "insert")
          IN  /\ CountFault(ok)
              /\ IF /\ ok
                    /\ ~UniqueViolation(store, b.phone_number, b.email)
                    /\ \A x \in store :
                          similarityScore(DetectContact(b), x) < DuplicateThreshold
                 THEN /\ store' = store \cup
                            {Row(nextId, b.first_name, b.last_name, b.phone_number,
                                 b.email, b.relationship_type, b.data_owner,
                                 b.source, b.status, b.notes, t)}
                      /\ nextId' = nextId + 1
                      /\ Become(p, [r EXCEPT !.pc = "fetch", !.insertId = nextId])
                 ELSE /\ Become(p, Respond(r, "500"))
                      /\ UNCHANGED <<store, nextId>>
    /\ UNCHANGED <<started, parser, call>>

CreateInsert(p) ==
    /\ At2(p, "create", "insert")
    /\ \E ok \in IoOutcomes, t \in Timestamps :
          LET b == req[p].body
              r == Issue(req[p], "insert")
          IN  /\ CountFault(ok)
              /\ IF ok /\ ~UniqueViolation(store, b.phone_number, b.email)
                 THEN /\ store' = store \cup
                            {Row(nextId, b.first_name, b.last_name, b.phone_number,
                                 b.email, b.relationship_type, b.data_owner,
                                 b.source, b.status, b.notes, t)}
                      /\ nextId' = nextId + 1
                      /\ Become(p, [r EXCEPT !.pc = "fetch", !.insertId = nextId])
                 ELSE /\ Become(p, Respond(r, "500"))
                      /\ UNCHANGED <<store, nextId>>
    /\ UNCHANGED <<started, parser, call>>

CreateFetch(p) ==
    /\ At2(p, "create", "fetch")
    /\ \E ok \in IoOutcomes :
          /\ CountFault(ok)
          /\ Become(p, Respond(Issue(req[p], "select-by-id"),
                               IF ok THEN "201" ELSE "500"))
    /\ UNCHANGED <<store, nextId, started, parser, call>>

(***************************************************************************)
(* PUT /:id : update one contact (routes/contacts)                         *)
(***************************************************************************)
StartUpdate(p, id, b) ==
    /\ CanStart(p)
    /\ started' = started + 1
    /\ Become(p, IF ValidBody(b)
                 THEN [Idle EXCEPT !.kind = "update", !.pc = "exists",
                                   !.id = id, !.body = b]
                 ELSE Respond([Idle EXCEPT !.kind = "update", !.id = id, !.body = b],
                              "400"))
    /\ UNCHANGED <<store, nextId, faults, parser, call>>

UpdateExists(p) ==
    /\ At2(p, "update", "exists")
    /\ \E ok \in IoOutcomes :
          LET r == Issue(req[p], "select-by-id")
          IN  /\ CountFault(ok)
              /\ Become(p, IF ~ok THEN Respond(r, "500")
                           ELSE IF RowsById(req[p].id) = {} THEN Respond(r, "404")
                           ELSE [r EXCEPT !.pc = "check"])
    /\ UNCHANGED <<store, nextId, started, parser, call>>

UpdateCheck(p) ==
    /\ At2(p, "update", "check")
    /\ \E ok \in IoOutcomes :
       \E rows \in QueryResults(DetectContact(req[p].body), req[p].id, ok) :
          LET check == DetectCall(DetectContact(req[p].body), req[p].id, ok, rows)
              r == [Issue(req[p], "select-candidates") EXCEPT !.duplicateCheck = check]
          IN  /\ CountFault(ok)
              /\ Become(p, IF check.result.hasDuplicates
                           THEN Respond(r, "409")
                           ELSE [r EXCEPT !.pc = "update"])
    /\ UNCHANGED <<store, nextId, started, parser, call>>

\* UPDATE contacts SET ... WHERE id = ?: no row with that id changes nothing
UpdatedRow(old, b) ==
    [old EXCEPT !.first_name = b.first_name, !.last_name = b.last_name,
                !.phone_number = b.phone_number, !.email = b.email,
                !.relationship_type = b.relationship_type,
                !.data_owner = b.data_owner, !.source = b.source,
                !.status = b.status, !.notes = b.notes]

UpdateApply(p) ==
    /\ At2(p, "update", "update")
    /\ \E ok \in IoOutcomes :
          LET b == req[p].body
              r == Issue(req[p], "update")
              target == RowsById(req[p].id)
              rejected == \/ ~ok
                          \/ /\ target # {}
                             /\ UniqueViolation(store \ target, b.phone_number, b.email)
          IN  /\ CountFault(ok)
              /\ IF rejected
                 THEN /\ Become(p, Respond(r, "500"))
                      /\ UNCHANGED store
                 ELSE /\ store' = (store \ target) \cup {UpdatedRow(x, b) : x \in target}
                      /\ Become(p, [r EXCEPT !.pc = "fetch"])
    /\ UNCHANGED <<nextId, started, parser, call>>

UpdateFetch(p) ==
    /\ At2(p, "update", "fetch")
    /\ \E ok \in IoOutcomes :
          /\ CountFault(ok)
          /\ Become(p, Respond(Issue(req[p], "select-by-id"),
                               IF ok THEN "200" ELSE "500"))
    /\ UNCHANGED <<store, nextId, started, parser, call>>

(***************************************************************************)
(* Batch imports: POST /import/raw (routes/contacts), POST /csv            *)
(* (routes/import.js)                                                      *)
(***************************************************************************)
\* A check loop that keeps every candidate for insertion
CheckedBatch_keepAll(r, check) ==
    LET r1 == [Issue(r, "select-candidates") EXCEPT
                  !.duplicateCheck = check,
                  !.validContacts = Append(@, r.contacts[r.i])]
    IN  IF r.i < Len(r.contacts) THEN [r1 EXCEPT !.i = r.i + 1]
        ELSE [r1 EXCEPT !.pc = "insert", !.i = 1]

\* The duplicate-check loop of a batch import: one detectDuplicates call per
\* contact; a contact with duplicates goes to duplicateResults, the others to
\* validContacts.  After the last contact the insert loop starts.
CheckedBatch(r, check) ==
    LET c == r.contacts[r.i]
        r1 == [Issue(r, "select-candidates") EXCEPT !.duplicateCheck = check]
        r2 == IF check.result.hasDuplicates
              THEN [r1 EXCEPT !.duplicateResults =
                        Append(@, [contact |-> c, duplicates |-> check.result.duplicates])]
              ELSE [r1 EXCEPT !.validContacts = Append(@, c)]
    IN  IF r.i < Len(r.contacts) THEN [r2 EXCEPT !.i = r.i + 1]
        ELSE IF Len(r2.validContacts) = 0 THEN Respond(r2, "200")
        ELSE [r2 EXCEPT !.pc = "insert", !.i = 1]

BatchCheck(p, kind) ==
    /\ At2(p, kind, "check")
    /\ \E ok \in IoOutcomes :
       \E rows \in QueryResults(req[p].contacts[req[p].i], 0, ok) :
          /\ CountFault(ok)
          /\ Become(p, CheckedBatch(req[p],
                           DetectCall(req[p].contacts[req[p].i], 0, ok, rows)))
    /\ UNCHANGED <<store, nextId, started, parser, call>>

\* The insert loop moves to the next valid contact, or the import responds
NextInsert(r) ==
    IF r.i < Len(r.validContacts) THEN [r EXCEPT !.pc = "insert", !.i = r.i + 1]
    ELSE Respond(r, "200")

\* The request after parsing: 400 when no raw data or no contact was parsed
RawImportParsed(rawData, parsedContacts) ==
    IF ~Truthy(rawData) \/ Len(parsedContacts) = 0
    THEN Respond([Idle EXCEPT !.kind = "raw"], "400")
    ELSE [Idle EXCEPT !.kind = "raw", !.pc = "check",
                      !.contacts = parsedContacts, !.i = 1]

\* parseRawContactData(rawData) for each body of RawTexts
ParsedRawTexts == [rawData \in RawTexts |-> parseRawContactData(rawData)]

StartImportRaw(p, rawData) ==
    /\ CanStart(p)
    /\ started' = started + 1
    /\ Become(p, RawImportParsed(rawData, ParsedRawTexts[rawData]))
    /\ UNCHANGED <<store, nextId, faults, parser, call>>

RawImportCheck(p) == BatchCheck(p, "raw")

\* contact.relationship_type || 'Other'
OrOther(x) == IF Truthy(x) THEN x ELSE <<"O", "t", "h", "e", "r">>

\* A rejected INSERT is not caught per contact: the import ends with 500
RawImportInsert(p) ==
    /\ At2(p, "raw", "insert")
    /\ \E ok \in IoOutcomes, t \in Timestamps :
          LET c == req[p].validContacts[req[p].i]
              r == Issue(req[p], "insert")
          IN  /\ CountFault(ok)
              /\ IF /\ ok
                    /\ ~NotNullViolation(c.first_name, c.phone_number)
                    /\ ~UniqueViolation(store, c.phone_number, c.email)
                 THEN /\ store' = store \cup
                            {Row(nextId, c.first_name, c.last_name, c.phone_number,
                                 c.email, OrOther(c.relationship_type), NULL,
                                 "Raw Data", "Active", NULL, t)}
                      /\ nextId' = nextId + 1
                      /\ Become(p, [r EXCEPT !.pc = "fetch", !.insertId = nextId])
                 ELSE /\ Become(p, Respond(r, "500"))
                      /\ UNCHANGED <<store, nextId>>
    /\ UNCHANGED <<started, parser, call>>

\* SELECT * FROM contacts WHERE id = insertId; rows[0] is pushed (undefined
\* when the row is gone)
RawImportFetch(p) ==
    /\ At2(p, "raw", "fetch")
    /\ \E ok \in IoOutcomes :
          LET r == Issue(req[p], "select-by-id")
              found == RowsById(req[p].insertId)
          IN  /\ CountFault(ok)
              /\ Become(p, IF ~ok THEN Respond(r, "500")
                           ELSE NextInsert([r EXCEPT !.insertedContacts =
                                    Append(@, FirstRow(found))]))
    /\ UNCHANGED <<store, nextId, started, parser, call>>

\* x || '' and x || default
OrElse(x, d) == IF Truthy(x) THEN x ELSE d

\* The 'data' handler of the CSV stream: a row becomes a contact, and is kept
\* when first_name and phone_number are non-empty
CsvContact(row) ==
    [first_name |-> OrElse(row.first_name, <<>>),
     last_name |-> OrElse(row.last_name, <<>>),
     phone_number |-> OrElse(row.phone_number, <<>>),
     email |-> OrElse(row.email, <<>>),
     relationship_type |-> <<"O", "t", "h", "e", "r">>,
     data_owner |-> NULL,
     source |-> "CSV"]

CsvKept(c) == Truthy(c.first_name) /\ Truthy(c.phone_number)

CsvContacts(file) ==
    SelectSeq([k \in 1..Len(file) |-> CsvContact(file[k])], CsvKept)

StartImportCsv(p, file) ==
    /\ CanStart(p)
    /\ started' = started + 1
    /\ LET contacts == CsvContacts(file)
           errors == Len(file) - Len(contacts)
       IN  Become(p, IF Len(contacts) = 0
                     THEN Respond([Idle EXCEPT !.kind = "csv", !.errors = errors], "400")
                     ELSE [Idle EXCEPT !.kind = "csv", !.pc = "check",
                                       !.contacts = contacts, !.i = 1,
                                       !.errors = errors])
    /\ UNCHANGED <<store, nextId, faults, parser, call>>

CsvImportCheck(p) == BatchCheck(p, "csv")

\* INSERT ... RETURNING * inside try/catch: a rejected insert is counted in
\* errors and the loop goes on
CsvImportInsert(p) ==
    /\ At2(p, "csv", "insert")
    /\ \E ok \in IoOutcomes, t \in Timestamps :
          LET c == req[p].validContacts[req[p].i]
              r == Issue(req[p], "insert")
              row == Row(nextId, c.first_name, c.last_name, c.phone_number,
                         c.email, c.relationship_type, c.data_owner,
                         c.source, "Active", NULL, t)
          IN  /\ CountFault(ok)
              /\ IF ok /\ ~UniqueViolation(store, c.phone_number, c.email)
                 THEN /\ store' = store \cup {row}
                      /\ nextId' = nextId + 1
                      /\ Become(p, NextInsert([r EXCEPT !.insertedContacts = Append(@, row)]))
                 ELSE /\ Become(p, NextInsert([r EXCEPT !.errors = @ + 1]))
                      /\ UNCHANGED <<store, nextId>>
    /\ UNCHANGED <<started, parser, call>>

(***************************************************************************)
(* Source imports: POST /gmail, POST /zoho (routes/import.js)              *)
(***************************************************************************)
SourceKinds == {"gmail", "zoho"}

\* importGmailContacts / importZohoContacts: contacts without first name,
\* last name and email are filtered out
SourceKept(t) == Truthy(t.firstName) \/ Truthy(t.lastName) \/ Truthy(t.email)

\* contactData of the route: relationshipType defaults to 'Other', dataOwner
\* is not given
SourceContact(t, kind) ==
    [first_name |-> OrElse(t.firstName, <<>>),
     last_name |-> OrElse(t.lastName, <<>>),
     phone_number |-> OrElse(t.phoneNumber, <<>>),
     email |-> OrElse(t.email, <<>>),
     relationship_type |-> <<"O", "t", "h", "e", "r">>,
     data_owner |-> NULL,
     source |-> IF kind = "gmail" THEN "Gmail" ELSE "Zoho"]

\* The route fetches the contacts; every fetched contact goes to the
\* duplicate-check loop
StartImportSource(p, kind, tuples) ==
    /\ CanStart(p)
    /\ started' = started + 1
    /\ LET fetched == SelectSeq(tuples, SourceKept)
       IN  Become(p, IF Len(fetched) = 0
                     THEN Respond([Idle EXCEPT !.kind = kind], "400")
                     ELSE [Idle EXCEPT !.kind = kind, !.pc = "check",
                                       !.contacts = [k \in 1..Len(fetched) |->
                                                        SourceContact(fetched[k], kind)],
                                       !.i = 1])
    /\ UNCHANGED <<store, nextId, faults, parser, call>>

SourceImportCheck(p, kind) == BatchCheck(p, kind)

\* INSERT ... RETURNING * inside try/catch: a rejected insert is logged and
\* the loop goes on
SourceImportInsert(p, kind) ==
    /\ At2(p, kind, "insert")
    /\ \E ok \in IoOutcomes, t \in Timestamps :
          LET c == req[p].validContacts[req[p].i]
              r == Issue(req[p], "insert")
              row == Row(nextId, c.first_name, c.last_name, c.phone_number,
                         c.email, c.relationship_type, c.data_owner,
                         c.source, "Active", NULL, t)
          IN  /\ CountFault(ok)
              /\ IF ok /\ ~UniqueViolation(store, c.phone_number, c.email)
                 THEN /\ store' = store \cup {row}
                      /\ nextId' = nextId + 1
                      /\ Become(p, NextInsert([r EXCEPT !.insertedContacts = Append(@, row)]))
                 ELSE /\ Become(p, NextInsert(r))
                      /\ UNCHANGED <<store, nextId>>
    /\ UNCHANGED <<started, parser, call>>

(***************************************************************************)
(* mergeContacts (services/duplicateDetector.js)                           *)
(***************************************************************************)
\* The duplicateContactIds a caller may pass: up to MaxDupIds ids, in any
\* order, repeated or unknown ids included
DupIdLists == UNION { [1..n -> 1..nextId] : n \in 0..MaxDupIds }

RECURSIVE SeqToSet(_)
SeqToSet(s) == IF Len(s) = 0 THEN {} ELSE {Head(s)} \cup SeqToSet(Tail(s))

\* The orders in which SELECT ... WHERE id IN (...) may return the rows S
\* (the statement has no ORDER BY)
AnyOrder(S) ==
    { q \in [1..Cardinality(S) -> S] :
        \A i, j \in 1..Cardinality(S) : i # j => q[i] # q[j] }

StartMerge(p, primaryContactId, duplicateContactIds) ==
    /\ CanStart(p)
    /\ started' = started + 1
    /\ Become(p, [Idle EXCEPT !.kind = "merge", !.pc = "primary",
                              !.id = primaryContactId,
                              !.dupIds = duplicateContactIds])
    /\ UNCHANGED <<store, nextId, faults, parser, call>>

MergeSelectPrimary(p) ==
    /\ At2(p, "merge", "primary")
    /\ \E ok \in IoOutcomes :
          LET r == Issue(req[p], "select-by-id")
              primaryRows == RowsById(req[p].id)
          IN  /\ CountFault(ok)
              /\ Become(p, IF ~ok THEN Respond(r, "IOError")
                           ELSE IF PrimaryNotFound(primaryRows)
                           THEN Respond(r, "NotFound")
                           ELSE [r EXCEPT !.pc = "duplicates",
                                          !.primaryContact = FirstRow(primaryRows)])
    /\ UNCHANGED <<store, nextId, started, parser, call>>

\* SELECT * FROM contacts WHERE id IN (ids), then the merge loop
MergeSelectDuplicates(p) ==
    /\ At2(p, "merge", "duplicates")
    /\ \E ok \in IoOutcomes :
       \E rows \in IF ok THEN AnyOrder({x \in store : x.id \in SeqToSet(req[p].dupIds)})
                         ELSE {<<>>} :
          LET r == Issue(req[p], "select-duplicates")
          IN  /\ CountFault(ok)
              /\ Become(p, IF ~ok THEN Respond(r, "IOError")
                           ELSE [r EXCEPT !.pc = "update",
                                          !.duplicateRows = rows,
                                          !.mergedContact =
                                              ComputeMerged(r.primaryContact, rows)])
    /\ UNCHANGED <<store, nextId, started, parser, call>>

\* An update that also resets the status of the primary
MergedRow_resetStatus(old, m) ==
    [old EXCEPT !.first_name = m.first_name, !.last_name = m.last_name,
                !.phone_number = m.phone_number, !.email = m.email,
                !.relationship_type = m.relationship_type,
                !.data_owner = m.data_owner, !.notes = m.notes,
                !.status = "Merged"]

\* UPDATE contacts SET first_name = $1, ..., notes = $7 WHERE id = $8
MergedRow(old, m) ==
    [old EXCEPT !.first_name = m.first_name, !.last_name = m.last_name,
                !.phone_number = m.phone_number, !.email = m.email,
                !.relationship_type = m.relationship_type,
                !.data_owner = m.data_owner, !.notes = m.notes]

\* A merge that goes on to the delete when the update was rejected
MergeUpdate_ignoreFailure(p) ==
    /\ At2(p, "merge", "update")
    /\ \E ok \in IoOutcomes :
          LET m == req[p].mergedContact
              r == Issue(req[p], "update")
              target == RowsById(req[p].id)
              constraint == /\ target # {}
                            /\ \/ UniqueViolation(store \ target, m.phone_number, m.email)
                               \/ NotNullViolation(m.first_name, m.phone_number)
          IN  /\ CountFault(ok)
              /\ store' = IF ~ok \/ constraint THEN store
                          ELSE (store \ target) \cup {MergedRow(x, m) : x \in target}
              /\ Become(p, [r EXCEPT !.pc = "delete"])
    /\ UNCHANGED <<nextId, started, parser, call>>

MergeUpdate(p) ==
    /\ At2(p, "merge", "update")
    /\ \E ok \in IoOutcomes :
          LET m == req[p].mergedContact
              r == Issue(req[p], "update")
              target == RowsById(req[p].id)
              constraint == /\ target # {}
                            /\ \/ UniqueViolation(store \ target, m.phone_number, m.email)
                               \/ NotNullViolation(m.first_name, m.phone_number)
          IN  /\ CountFault(ok)
              /\ IF ~ok \/ constraint
                 THEN /\ Become(p, Respond(r, IF ~ok THEN "IOError" ELSE "ConstraintError"))
                      /\ UNCHANGED store
                 ELSE /\ store' = (store \ target) \cup {MergedRow(x, m) : x \in target}
                      /\ Become(p, [r EXCEPT !.pc = "delete"])
    /\ UNCHANGED <<nextId, started, parser, call>>

\* DELETE FROM contacts WHERE id IN (ids); deletedCount is
\* duplicateContactIds.length
MergeDelete(p) ==
    /\ At2(p, "merge", "delete")
    /\ \E ok \in IoOutcomes :
          LET r == Issue(req[p], "delete")
          IN  /\ CountFault(ok)
              /\ IF ok
                 THEN /\ store' = {x \in store : x.id \notin SeqToSet(req[p].dupIds)}
                      /\ Become(p, Respond([r EXCEPT !.deletedCount = Len(r.dupIds)],
                                           "success"))
                 ELSE /\ Become(p, Respond(r, "IOError"))
                      /\ UNCHANGED store
    /\ UNCHANGED <<nextId, started, parser, call>>

(***************************************************************************)
(* One call of parseRawContactData ("basic") or of                         *)
(* parseRawContactDataEnhanced ("enhanced"), followed line by line         *)
(* (services/contactParser)                                                *)
(***************************************************************************)
\* The call has split rawData and filtered the blank lines out
ParseCall(path, rawData) ==
    [path |-> path, rawData |-> rawData, lines |-> NonBlankLines(rawData),
     i |-> 1, contacts |-> <<>>, traces |-> <<>>, returned |-> FALSE]

\* The parser state after one pass of the loop for the trimmed line
ParsedLine(ps, line, contacts) ==
    [ps EXCEPT !.i = ps.i + 1,
               !.contacts = contacts,
               !.traces = Append(@, parseContactLineTrace(line))]

\* One pass of the loop of parseRawContactData
ParseNextLine ==
    /\ parser.path = "basic"
    /\ parser.i <= Len(parser.lines)
    /\ parser' = ParsedLine(parser, Trim(parser.lines[parser.i]),
                            ParseLine(parser.contacts, Trim(parser.lines[parser.i])))
    /\ UNCHANGED <<store, nextId, req, started, faults, call>>

\* One pass of the loop of parseRawContactDataEnhanced
ParseNextLineEnhanced ==
    /\ parser.path = "enhanced"
    /\ parser.i <= Len(parser.lines)
    /\ parser' = ParsedLine(parser, Trim(parser.lines[parser.i]),
                            ParseLineEnhanced(parser.contacts,
                                              Trim(parser.lines[parser.i])))
    /\ UNCHANGED <<store, nextId, req, started, faults, call>>

\* return contacts
ParseReturn ==
    /\ parser.path \in {"basic", "enhanced"}
    /\ parser.i > Len(parser.lines)
    /\ ~parser.returned
    /\ parser' = [parser EXCEPT !.returned = TRUE]
    /\ UNCHANGED <<store, nextId, req, started, faults, call>>

(***************************************************************************)
(* One call of a pure function of the detector or the parser               *)
(***************************************************************************)
FnCall(op, args) == [op |-> op, args |-> args, results |-> <<>>]

\* calculateSimilarity(str1, str2) returns
CallCalculateSimilarity ==
    /\ call.op = "calculateSimilarity"
    /\ call.results = <<>>
    /\ call' = [call EXCEPT !.results =
                    <<calculateSimilarity(call.args[1], call.args[2])>>]
    /\ UNCHANGED <<store, nextId, req, started, faults, parser>>

\* normalizePhoneNumber(x) returns, and is then called on its own result
CallNormalizePhoneNumber ==
    /\ call.op = "normalizePhoneNumber"
    /\ Len(call.results) < 2
    /\ call' = [call EXCEPT !.results =
                    Append(@, normalizePhoneNumber(
                                  IF Len(call.results) = 0 THEN call.args[1]
                                  ELSE call.results[Len(call.results)]))]
    /\ UNCHANGED <<store, nextId, req, started, faults, parser>>

\* formatPhoneNumber(phone) returns
CallFormatPhoneNumber ==
    /\ call.op = "formatPhoneNumber"
    /\ call.results = <<>>
    /\ call' = [call EXCEPT !.results = <<formatPhoneNumber(call.args[1])>>]
    /\ UNCHANGED <<store, nextId, req, started, faults, parser>>

\* parseSpaceSeparated(line) returns
CallParseSpaceSeparated ==
    /\ call.op = "parseSpaceSeparated"
    /\ call.results = <<>>
    /\ call' = [call EXCEPT !.results = <<parseSpaceSeparated(call.args[1])>>]
    /\ UNCHANGED <<store, nextId, req, started, faults, parser>>

\* parseByPattern(line) returns
CallParseByPattern ==
    /\ call.op = "parseByPattern"
    /\ call.results = <<>>
    /\ call' = [call EXCEPT !.results = <<parseByPattern(call.args[1])>>]
    /\ UNCHANGED <<store, nextId, req, started, faults, parser>>

\* formatPhoneNumber(phone) returns, then formatPhoneNumber and
\* normalizePhoneNumber are each called on what it returned
CallFormatThenNormalize ==
    /\ call.op = "formatThenNormalize"
    /\ Len(call.results) < 3
    /\ call' = [call EXCEPT !.results =
                    Append(@, IF Len(call.results) = 0
                              THEN formatPhoneNumber(call.args[1])
                              ELSE IF Len(call.results) = 1
                              THEN formatPhoneNumber(call.results[1])
                              ELSE normalizePhoneNumber(call.results[1]))]
    /\ UNCHANGED <<store, nextId, req, started, faults, parser>>

\* arePhoneNumbersSimilar(phone1, phone2) returns
CallArePhoneNumbersSimilar ==
    /\ call.op = "arePhoneNumbersSimilar"
    /\ call.results = <<>>
    /\ call' = [call EXCEPT !.results =
                    <<arePhoneNumbersSimilar(call.args[1], call.args[2])>>]
    /\ UNCHANGED <<store, nextId, req, started, faults, parser>>

\* detectDuplicates(contact) returns: the query ran against the table
\* call.args[2] and returned its rows in one of the orders the ORDER BY allows
CallDetectDuplicates ==
    /\ call.op = "detectDuplicates"
    /\ call.results = <<>>
    /\ \E rows \in PrefilterResults(call.args[1], 0, call.args[2]) :
          call' = [call EXCEPT !.results =
                       <<DetectCall(call.args[1], 0, TRUE, rows)>>]
    /\ UNCHANGED <<store, nextId, req, started, faults, parser>>

(***************************************************************************)
(* The specification                                                       *)
(***************************************************************************)
\* The response has been sent (or the error thrown): the slot is free again
Finish(p) ==
    /\ req[p].pc = "done"
    /\ Become(p, Idle)
    /\ UNCHANGED <<store, nextId, started, faults, parser, call>>

Next ==
    \E p \in Procs :
        \/ \E b \in Bodies : StartCreate(p, b)
        \/ CreateCheck(p)
        \/ CreateInsert(p)
        \/ CreateFetch(p)
        \/ \E id \in 1..nextId, b \in Bodies : StartUpdate(p, id, b)
        \/ UpdateExists(p)
        \/ UpdateCheck(p)
        \/ UpdateApply(p)
        \/ UpdateFetch(p)
        \/ \E rawData \in RawTexts : StartImportRaw(p, rawData)
        \/ RawImportCheck(p)
        \/ RawImportInsert(p)
        \/ RawImportFetch(p)
        \/ \E file \in CsvFiles : StartImportCsv(p, file)
        \/ CsvImportCheck(p)
        \/ CsvImportInsert(p)
        \/ \E kind \in SourceKinds, tuples \in SourceLists :
              StartImportSource(p, kind, tuples)
        \/ \E kind \in SourceKinds : SourceImportCheck(p, kind)
        \/ \E kind \in SourceKinds : SourceImportInsert(p, kind)
        \/ \E id \in 1..nextId, ids \in DupIdLists : StartMerge(p, id, ids)
        \/ MergeSelectPrimary(p)
        \/ MergeSelectDuplicates(p)
        \/ MergeUpdate(p)
        \/ MergeDelete(p)
        \/ Finish(p)

Spec == Init /\ [][Next]_vars

\* A batch parser called on each text of ParseTexts
InitParse ==
    /\ EmptyServer
    /\ parser \in { ParseCall(path, rawData) :
                      path \in {"basic", "enhanced"}, rawData \in ParseTexts }
    /\ call = NoCall

NextParse ==
    \/ ParseNextLine
    \/ ParseNextLineEnhanced
    \/ ParseReturn

SpecParse == InitParse /\ [][NextParse]_vars

\* A pure function called on each of its arguments
InitFn ==
    /\ EmptyServer
    /\ parser = NoParse
    /\ call \in { FnCall("calculateSimilarity", <<a, b>>) :
                     a \in SimilarityStrings, b \in SimilarityStrings }
               \cup { FnCall("normalizePhoneNumber", <<x>>) : x \in PhoneStrings }
               \cup { FnCall("formatPhoneNumber", <<x>>) : x \in PhoneStrings }
               \cup { FnCall("formatThenNormalize", <<x>>) : x \in PhoneStrings }
               \cup { FnCall("detectDuplicates", <<c, DetectStore>>) :
                        c \in DetectContacts }
               \cup { FnCall("arePhoneNumbersSimilar", <<x, y>>) :
                        x \in PhoneStrings, y \in PhoneStrings }
               \cup { FnCall("parseSpaceSeparated", <<line>>) : line \in StrategyLines }
               \cup { FnCall("parseByPattern", <<line>>) : line \in StrategyLines }

NextFn ==
    \/ CallCalculateSimilarity
    \/ CallNormalizePhoneNumber
    \/ CallFormatPhoneNumber
    \/ CallFormatThenNormalize
    \/ CallArePhoneNumbersSimilar
    \/ CallDetectDuplicates
    \/ CallParseSpaceSeparated
    \/ CallParseByPattern

SpecFn == InitFn /\ [][NextFn]_vars

\* mergeContacts called once on a table that earlier requests have filled
\* with three contacts
InitMerge ==
    /\ store = MergeStore
    /\ nextId = 4
    /\ req = [p \in Procs |-> Idle]
    /\ started = MaxRequests - 1
    /\ faults = 0
    /\ parser = NoParse
    /\ call = NoCall

NextMerge ==
    \E p \in Procs :
        \/ \E id \in 1..nextId, ids \in DupIdLists : StartMerge(p, id, ids)
        \/ MergeSelectPrimary(p)
        \/ MergeSelectDuplicates(p)
        \/ MergeUpdate(p)
        \/ MergeDelete(p)
        \/ Finish(p)

SpecMerge == InitMerge /\ [][NextMerge]_vars

(***************************************************************************)
(* Properties                                                              *)
(***************************************************************************)
\* The detectDuplicates call of slot p returns in this step
Detected(p) == req[p].pc = "check" /\ req'[p] # req[p]

\* Slot p has called detectDuplicates at least once
HasChecked(p) == \E k \in 1..Len(req[p].issued) : req[p].issued[k] = "select-candidates"

BatchKinds == {"raw", "csv", "gmail", "zoho"}

\* A candidate is valid: non-empty first name, phone of at least 10 digits
ValidCandidate(c) ==
    /\ Truthy(c.first_name)
    /\ Truthy(c.phone_number)
    /\ Len(normalizePhoneNumber(c.phone_number)) >= 10

\* C1: every candidate the raw import hands to detectDuplicates, and every
\* row it stores, has a non-empty first name and a phone number that
\* normalizes to at least 10 digits.
C1_RawCandidatesValid ==
    /\ \A p \in Procs :
          (req[p].kind = "raw" /\ HasChecked(p)) =>
              ValidCandidate(req[p].duplicateCheck.contact)
    /\ \A row \in store : row.source = "Raw Data" => ValidCandidate(row)

\* The weighted score of the claim, in tenths
Signal(cond) == IF cond THEN 1 ELSE 0

WeightedScore(contact, row) ==
    4 * Signal(/\ Truthy(contact.phone_number)
               /\ Truthy(row.phone_number)
               /\ arePhoneNumbersSimilar(contact.phone_number, row.phone_number))
    + 4 * Signal(/\ Truthy(contact.email)
                 /\ Truthy(row.email)
                 /\ areEmailsSimilar(contact.email, row.email))
    + 3 * Signal(/\ Truthy(FullName(row))
                 /\ Truthy(FullName(contact))
                 /\ areNamesSimilar(FullName(row), FullName(contact)))

Reported(check, row) ==
    \E k \in 1..Len(check.result.duplicates) :
        check.result.duplicates[k].existingContact = row

\* C2: for every row the prefilter returned, the row is reported iff its
\* weighted score 0.4*[phone] + 0.4*[email] + 0.3*[name] is at least 0.4,
\* the reported score is that score, and isExactMatch holds iff it is at
\* least 0.8.
C2_ScoreAndThresholds ==
    \A p \in Procs :
        LET check == req[p].duplicateCheck
        IN  check.queryOk =>
              /\ \A k \in 1..Len(check.rows) :
                    Reported(check, check.rows[k])
                        <=> WeightedScore(check.contact, check.rows[k]) >= 4
              /\ \A k \in 1..Len(check.result.duplicates) :
                    LET d == check.result.duplicates[k]
                    IN  /\ \E j \in 1..Len(check.rows) : check.rows[j] = d.existingContact
                        /\ d.similarityScore = WeightedScore(check.contact, d.existingContact)
                        /\ d.isExactMatch <=> d.similarityScore >= 8

\* A phone-and-email match without name similarity was reported: score 0.8,
\* exact
C2_Witness ==
    \E p \in Procs :
        \E k \in 1..Len(req[p].duplicateCheck.result.duplicates) :
            LET d == req[p].duplicateCheck.result.duplicates[k]
                c == req[p].duplicateCheck.contact
            IN  /\ d.similarityScore = 8
                /\ d.isExactMatch
                /\ arePhoneNumbersSimilar(c.phone_number, d.existingContact.phone_number)
                /\ areEmailsSimilar(c.email, d.existingContact.email)
                /\ ~areNamesSimilar(FullName(d.existingContact), FullName(c))

MergedFields ==
    {"first_name", "last_name", "phone_number", "email", "relationship_type",
     "data_owner"}

\* Slot p runs mergeContacts and has computed the merged record
HasMerged(p) == req[p].kind = "merge" /\ req[p].mergedContact # <<>>

\* C3: per field, the merged record keeps a non-empty value of the primary;
\* an empty one takes a non-empty value of one of the duplicates, and stays
\* as it is only when every duplicate's value is empty.
C3_FillIfMissing ==
    \A p \in Procs :
        HasMerged(p) =>
            \A f \in MergedFields :
                LET mine == req[p].primaryContact[f]
                    merged == req[p].mergedContact[f]
                    theirs == { req[p].duplicateRows[k][f] :
                                  k \in 1..Len(req[p].duplicateRows) }
                IN  /\ Truthy(mine) => merged = mine
                    /\ ~Truthy(mine) =>
                          IF \E v \in theirs : Truthy(v)
                          THEN Truthy(merged) /\ merged \in theirs
                          ELSE merged = mine

\* A merge filled an empty field of the primary and kept a non-empty one
\* for which a duplicate holds another value
C3_Witness ==
    \E p \in Procs :
        /\ HasMerged(p)
        /\ \E f \in MergedFields :
              /\ ~Truthy(req[p].primaryContact[f])
              /\ Truthy(req[p].mergedContact[f])
        /\ \E f \in MergedFields, k \in 1..Len(req[p].duplicateRows) :
              /\ Truthy(req[p].primaryContact[f])
              /\ Truthy(req[p].duplicateRows[k][f])
              /\ req[p].duplicateRows[k][f] # req[p].primaryContact[f]


\* The lookup of the primary by mergeContacts in slot p returns in this step
PrimaryLookedUp(p) ==
    /\ req[p].kind = "merge"
    /\ req[p].pc = "primary"
    /\ req'[p] # req[p]

IssuedBy(p) == {req[p].issued[k] : k \in 1..Len(req[p].issued)}

\* C4: a mergeContacts call whose primary id is not in the store ends at the
\* lookup without issuing an update or a delete and leaves the store as it
\* was; when the lookup itself succeeds the call fails with the not-found
\* error.
C4_UnknownPrimary ==
    [][\A p \in Procs :
          (PrimaryLookedUp(p) /\ \A row \in store : row.id # req[p].id) =>
              /\ req'[p].pc = "done"
              /\ req'[p].response \in {"NotFound", "IOError"}
              /\ faults' = faults => req'[p].response = "NotFound"
              /\ req'[p].issued = <<"select-by-id">>
              /\ store' = store]_vars

\* A merge with an unknown primary and a non-empty list of duplicates failed
\* with the not-found error
C4_Witness ==
    \E p \in Procs :
        /\ req[p].kind = "merge"
        /\ req[p].response = "NotFound"
        /\ Len(req[p].dupIds) > 0
        /\ \E row \in store : row.id = req[p].dupIds[1]
        /\ \A row \in store : row.id # req[p].id

\* The entry a line contributes to the output of a batch parser
EntryOf(path, line) ==
    LET first == parseContactLine(line)
        parsed == IF path = "enhanced" /\ first = None
                  THEN parseAlternativeFormats(line) ELSE first
        kept == IF parsed = None THEN FALSE
                ELSE IF path = "basic"
                THEN Truthy(parsed[1].first_name) /\ Truthy(parsed[1].phone_number)
                ELSE validateParsedContact(parsed[1])
    IN  IF kept THEN <<parsed[1]>> ELSE <<>>

\* The entries of lines[1..n], in line order
RECURSIVE EntriesOf(_, _, _)
EntriesOf(path, lines, n) ==
    IF n = 0 THEN <<>>
    ELSE EntriesOf(path, lines, n - 1) \o EntryOf(path, Trim(lines[n]))

\* C5: a batch parser walks every non-blank line: after each pass its output
\* is the kept candidates of the lines passed so far, in line order, a line
\* that parses to nothing or fails the validity test adding no entry; it
\* returns only after the last line, with at most one entry per non-blank
\* line.
C5_BatchNeverAborts ==
    parser.path \in {"basic", "enhanced"} =>
        /\ parser.lines =
              SelectSeq(Split(parser.rawData, <<"\n">>),
                        LAMBDA line : Trim(line) # <<>>)
        /\ parser.i \in 1..(Len(parser.lines) + 1)
        /\ parser.contacts = EntriesOf(parser.path, parser.lines, parser.i - 1)
        /\ parser.returned =>
              /\ parser.i = Len(parser.lines) + 1
              /\ Len(parser.contacts) <= Len(parser.lines)
              /\ parser.path = "basic" =>
                    parser.contacts = parseRawContactData(parser.rawData)

\* A parser returned one candidate for two non-blank lines: the first line
\* gave no entry and the second was still parsed and kept
C5_Witness ==
    /\ parser.path \in {"basic", "enhanced"}
    /\ parser.returned
    /\ Len(parser.lines) = 2
    /\ EntryOf(parser.path, Trim(parser.lines[1])) = <<>>
    /\ Len(parser.contacts) = 1
    /\ parser.contacts = EntryOf(parser.path, Trim(parser.lines[2]))

\* What each strategy returns for a line, in the order comma, tab, space,
\* pattern
StrategyResults(line) ==
    <<parseCommaSeparated(line), parseTabSeparated(line),
      parseSpaceSeparated(line), parseByPattern(line)>>

\* C6: parseContactLine calls the comma, tab, space and pattern strategies
\* in that order, goes on to the next one only after a null result, and
\* returns the result of the last strategy it called; it returns null only
\* when all four returned null.
C6_StrategyOrder ==
    \A k \in 1..Len(parser.traces) :
        LET line == Trim(parser.lines[k])
            trace == parser.traces[k]
            n == Len(trace.tried)
        IN  /\ n \in 1..4
            /\ trace.tried = SubSeq(<<"comma", "tab", "space", "pattern">>, 1, n)
            /\ \A j \in 1..(n - 1) : StrategyResults(line)[j] = None
            /\ n < 4 => StrategyResults(line)[n] # None
            /\ trace.result = StrategyResults(line)[n]
            /\ trace.result = None <=>
                  \A j \in 1..4 : StrategyResults(line)[j] = None

\* The comma strategy returned a contact that fails the validity test, and
\* no other strategy was called although a later one parses the line too
C6_Witness ==
    \E k \in 1..Len(parser.traces) :
        /\ parser.traces[k].tried = <<"comma">>
        /\ parser.traces[k].result # None
        /\ ~Truthy(parser.traces[k].result[1].first_name)
        /\ \E j \in 2..4 : StrategyResults(Trim(parser.lines[k]))[j] # None

\* C7: when detectDuplicates returns, every stored contact other than
\* excludeId whose weighted score against the candidate is at least 0.4 is
\* among the reported duplicates (the prefilter has missed none).
C7_PrefilterMissesNone ==
    [][\A p \in Procs :
          (Detected(p) /\ req'[p].duplicateCheck.queryOk) =>
              \A row \in store :
                  (/\ row.id # req'[p].duplicateCheck.excludeId
                   /\ WeightedScore(req'[p].duplicateCheck.contact, row) >= 4)
                      => \E k \in 1..Len(req'[p].duplicateCheck.result.duplicates) :
                            req'[p].duplicateCheck.result.duplicates[k]
                                .existingContact.id = row.id]_vars

\* C8: a detectDuplicates call whose query was rejected with an I/O error
\* ends the request with that error, and so does a mergeContacts call one of
\* whose statements was rejected: neither goes on as if the call had succeeded.
C8_IoErrorPropagates ==
    \A p \in Procs :
        /\ (HasChecked(p) /\ ~req[p].duplicateCheck.queryOk) =>
              (req[p].pc = "done" /\ req[p].response = "500")
        /\ (req[p].kind = "merge" /\ req[p].response = "IOError") =>
              req[p].pc = "done"

\* The insert of slot p is accepted in this step
Inserted(p) ==
    /\ req[p].pc = "insert"
    /\ req'[p] # req[p]
    /\ store' # store

SameCandidate(row, c) ==
    /\ row.first_name = c.first_name
    /\ row.last_name = c.last_name
    /\ row.phone_number = c.phone_number
    /\ row.email = c.email

\* C9: in a batch import a candidate for which detectDuplicates reports a
\* duplicate is appended to the duplicates list and not to the candidates to
\* insert, a candidate with no reported duplicate is appended to the
\* candidates to insert, and every row the import stores is one of those; a
\* single create for which a duplicate is reported is rejected with 409 and
\* leaves the store unchanged.
C9_ReportedNeverInserted ==
    [][\A p \in Procs :
          /\ (Detected(p) /\ req[p].kind \in BatchKinds) =>
                IF req'[p].duplicateCheck.result.hasDuplicates
                THEN /\ req'[p].validContacts = req[p].validContacts
                     /\ req'[p].duplicateResults =
                           Append(req[p].duplicateResults,
                                  [contact |-> req[p].contacts[req[p].i],
                                   duplicates |->
                                       req'[p].duplicateCheck.result.duplicates])
                     /\ store' = store
                ELSE /\ req'[p].validContacts =
                           Append(req[p].validContacts, req[p].contacts[req[p].i])
                     /\ req'[p].duplicateResults = req[p].duplicateResults
                     /\ store' = store
          /\ (Inserted(p) /\ req[p].kind \in BatchKinds) =>
                /\ req'[p].validContacts = req[p].validContacts
                /\ \E row \in store' \ store :
                      /\ store' = store \cup {row}
                      /\ SameCandidate(row, req[p].validContacts[req[p].i])
          /\ (Detected(p) /\ req[p].kind = "create"
                /\ req'[p].duplicateCheck.result.hasDuplicates) =>
                /\ req'[p].pc = "done"
                /\ req'[p].response = "409"
                /\ store' = store
          /\ (Inserted(p) /\ req[p].kind = "create") =>
                ~req[p].duplicateCheck.result.hasDuplicates]_vars

\* A batch import listed one candidate under duplicates, stored another, and
\* no row it stored is the listed candidate
C9_Witness ==
    \E p \in Procs :
        /\ req[p].kind \in BatchKinds
        /\ Len(req[p].duplicateResults) > 0
        /\ Len(req[p].insertedContacts) > 0
        /\ \A row \in store :
              row.source = "Raw Data" =>
                  ~SameCandidate(row, req[p].duplicateResults[1].contact)

\* The set of contacts reported for a candidate, with their scores
ReportedSet(result) ==
    {result.duplicates[k] : k \in 1..Len(result.duplicates)}

\* C10: a detectDuplicates call with an excludeId reports no contact with
\* that id, and reports of the other stored contacts exactly those the call
\* without excludeId reports, with the same scores; so an update is rejected
\* with 409 only when a contact other than the updated one is reported.
C10_ExcludeId ==
    [][\A p \in Procs :
          (/\ Detected(p)
           /\ req[p].kind = "update"
           /\ req'[p].duplicateCheck.queryOk) =>
              /\ req'[p].duplicateCheck.excludeId = req[p].id
              /\ \A d \in ReportedSet(req'[p].duplicateCheck.result) :
                    d.existingContact.id # req[p].id
              /\ \A rows \in PrefilterResults(DetectContact(req[p].body), 0, store) :
                    ReportedSet(req'[p].duplicateCheck.result) =
                        { d \in ReportedSet(detectDuplicates(
                                    DetectContact(req[p].body), TRUE, rows)) :
                            d.existingContact.id # req[p].id }
              /\ req'[p].response = "409" =>
                    \E row \in store :
                        /\ row.id # req[p].id
                        /\ WeightedScore(DetectContact(req[p].body), row) >= 4]_vars

\* An update whose body repeats the stored fields of the updated contact has
\* passed the duplicate check
C10_Witness ==
    \E p \in Procs :
        /\ req[p].kind = "update"
        /\ req[p].pc = "update"
        /\ req[p].duplicateCheck.queryOk
        /\ \E row \in store :
              /\ row.id = req[p].id
              /\ SameCandidate(row, req[p].body)
              /\ WeightedScore(DetectContact(req[p].body), row) >= 8

\* The similarity num/den is the number 1, or the number 0
IsOne(r) == r.den > 0 /\ r.num = r.den

IsZero(r) == r.den > 0 /\ r.num = 0

\* The followed call of calculateSimilarity has returned
SimilarityReturned == call.op = "calculateSimilarity" /\ call.results # <<>>

DigitsOf(x) == SelectSeq(x, LAMBDA c : c \in Digits)

\* C12: normalizePhoneNumber is idempotent: normalizing its result again
\* returns the same string, also for an 11-digit input starting with 1, whose
\* leading 1 is dropped by the first call.
C12_NormalizeIdempotent ==
    call.op = "normalizePhoneNumber" =>
        /\ Len(call.results) = 2 => call.results[2] = call.results[1]
        /\ (/\ Len(call.results) >= 1
            /\ Len(DigitsOf(call.args[1])) = 11
            /\ DigitsOf(call.args[1])[1] = "1")
               => call.results[1] = Tail(DigitsOf(call.args[1]))

\* An 11-digit input starting with 1 has been normalized twice
C12_Witness ==
    /\ call.op = "normalizePhoneNumber"
    /\ Len(call.results) = 2
    /\ Len(DigitsOf(call.args[1])) = 11
    /\ DigitsOf(call.args[1])[1] = "1"
    /\ Len(call.results[2]) = 10

\* The followed call of formatPhoneNumber has returned
FormatReturned == call.op = "formatPhoneNumber" /\ call.results # <<>>

\* C13: for a non-empty input, formatPhoneNumber returns '+1' and the digits
\* of the input when it has exactly 10 digits, '+' and the digits when it has
\* 11 or more, and the input itself, unmodified, when it has fewer than 10.
C13_FormatByDigitCount ==
    FormatReturned /\ call.args[1] # <<>> =>
        call.results[1] =
            IF Len(DigitsOf(call.args[1])) = 10
            THEN <<"+", "1">> \o DigitsOf(call.args[1])
            ELSE IF Len(DigitsOf(call.args[1])) >= 11
            THEN <<"+">> \o DigitsOf(call.args[1])
            ELSE call.args[1]

\* A punctuated 10-digit input has been formatted to '+1' and its digits
C13_Witness ==
    /\ FormatReturned
    /\ Len(DigitsOf(call.args[1])) = 10
    /\ Len(call.args[1]) > 10
    /\ call.results[1] = <<"+", "1">> \o DigitsOf(call.args[1])

\* C14: a candidate supplied by the Gmail, Zoho or CSV source reaches
\* detectDuplicates, and is stored, only if it has a non-empty first name
\* and a phone number that normalizes to at least 10 digits.
C14_SourceCandidatesValid ==
    /\ \A p \in Procs :
          (req[p].kind \in {"csv", "gmail", "zoho"} /\ HasChecked(p)) =>
              ValidCandidate(req[p].duplicateCheck.contact)
    /\ \A row \in store :
          row.source \in {"CSV", "Gmail", "Zoho"} => ValidCandidate(row)

\* The merge of slot p takes its step at pc in this step
MergeStep(p, pc) == req[p].kind = "merge" /\ req[p].pc = pc /\ req'[p] # req[p]

HasIssued(r, stmt) == \E k \in 1..Len(r.issued) : r.issued[k] = stmt

ErrorResponses == {"IOError", "ConstraintError"}

\* The row holds the merged values of the merge record m
HoldsMerged(row, m) ==
    \A f \in MergedFields \cup {"notes"} : row[f] = m[f]

\* C15: in mergeContacts the delete is issued only after the update was
\* accepted.  A rejected update ends the call with the error, without a
\* delete and with the store unchanged.  An accepted update leaves the
\* primary with the merged values and every other row as it was; a delete
\* that fails after it ends the call with the error and changes nothing, so
\* the duplicates are still present.
C15_UpdateBeforeDelete ==
    [][\A p \in Procs :
          /\ MergeStep(p, "update") =>
                /\ ~HasIssued(req'[p], "delete")
                /\ faults' # faults =>
                      /\ req'[p].pc = "done"
                      /\ req'[p].response = "IOError"
                /\ IF req'[p].pc = "delete"
                   THEN /\ faults' = faults
                        /\ {x \in store' : x.id # req[p].id}
                              = {x \in store : x.id # req[p].id}
                        /\ {x.id : x \in store'} = {x.id : x \in store}
                        /\ \A x \in store' :
                              x.id = req[p].id => HoldsMerged(x, req[p].mergedContact)
                   ELSE /\ req'[p].pc = "done"
                        /\ req'[p].response \in ErrorResponses
                        /\ store' = store
          /\ MergeStep(p, "delete") =>
                /\ req[p].issued[Len(req[p].issued)] = "update"
                /\ req'[p].pc = "done"
                /\ IF faults' # faults
                   THEN /\ req'[p].response = "IOError"
                        /\ store' = store
                   ELSE req'[p].response = "success"
          /\ (HasIssued(req'[p], "delete") /\ ~HasIssued(req[p], "delete")) =>
                MergeStep(p, "delete")]_vars

\* A merge whose update changed the primary has failed in its delete: the
\* primary holds the merged values and every duplicate is still stored
C15_Witness ==
    \E p \in Procs :
        /\ req[p].kind = "merge"
        /\ req[p].pc = "done"
        /\ req[p].response = "IOError"
        /\ req[p].issued[Len(req[p].issued)] = "delete"
        /\ Len(req[p].duplicateRows) > 0
        /\ \E x \in store :
              /\ x.id = req[p].id
              /\ HoldsMerged(x, req[p].mergedContact)
              /\ ~HoldsMerged(req[p].primaryContact, req[p].mergedContact)
        /\ \A k \in 1..Len(req[p].duplicateRows) :
              /\ req[p].duplicateRows[k] \in store
              /\ req[p].duplicateRows[k].id # req[p].id

\* The INSERT of slot p is issued in this step and stores nothing
InsertRejected(p) ==
    /\ req[p].pc = "insert"
    /\ req'[p] # req[p]
    /\ store' = store

\* The candidate slot p is about to insert
InsertCandidate(p) ==
    IF req[p].kind = "create" THEN req[p].body
    ELSE req[p].validContacts[req[p].i]

\* C16: nothing but the duplicate check that came before stands between a
\* candidate and the store: once the check has passed, the INSERT of a
\* create or an import is refused only for an I/O error or a constraint of
\* the table, never because a matching contact has been stored meanwhile.
\* Two concurrent requests with mutually matching candidates can therefore
\* both pass the check and both insert (the witness).
C16_NoRecheckBeforeInsert ==
    [][\A p \in Procs :
          InsertRejected(p) =>
              \/ faults' # faults
              \/ UniqueViolation(store, InsertCandidate(p).phone_number,
                                 InsertCandidate(p).email)
              \/ /\ req[p].kind = "raw"
                 /\ NotNullViolation(InsertCandidate(p).first_name,
                                     InsertCandidate(p).phone_number)]_vars

\* Two requests in flight have each stored a contact, no statement has
\* failed, each check reported no duplicate, and each stored contact scores
\* at least 0.4 against the other and is selected by the other's prefilter:
\* both checks were made before either insert
C16_Witness ==
    \E p, q \in Procs :
        /\ p # q
        /\ faults = 0
        /\ req[p].kind \in {"create", "raw"}
        /\ req[q].kind \in {"create", "raw"}
        /\ ~req[p].duplicateCheck.result.hasDuplicates
        /\ ~req[q].duplicateCheck.result.hasDuplicates
        /\ \E x, y \in store :
              /\ x.id = req[p].insertId
              /\ y.id = req[q].insertId
              /\ WeightedScore(x, y) >= 4
              /\ WeightedScore(y, x) >= 4
              /\ PrefilterWhere(x, 0, y)
              /\ PrefilterWhere(y, 0, x)

\* C17: while a batch import is the only request the server has had, no two
\* contacts of the store (all of them inserted by that batch) score 0.4 or
\* more against each other.
C17_BatchAloneNoDuplicates ==
    \A p \in Procs :
        (req[p].kind \in BatchKinds /\ started = 1) =>
            \A x, y \in store : x.id # y.id => WeightedScore(x, y) < 4

\* C18: when mergeContacts has returned success, the primary is in the store
\* and holds the merged values.
C18_PrimarySurvivesMerge ==
    \A p \in Procs :
        (req[p].kind = "merge" /\ req[p].pc = "done" /\ req[p].response = "success") =>
            \E x \in store :
                /\ x.id = req[p].id
                /\ HoldsMerged(x, req[p].mergedContact)

\* C19: with no I/O fault, a mergeContacts call whose primary and whose
\* duplicates are all stored ends with success.
C19_MergeCompletes ==
    \A p \in Procs :
        (/\ req[p].kind = "merge"
         /\ req[p].pc = "done"
         /\ faults = 0
         /\ req[p].primaryContact # <<>>
         /\ Len(req[p].duplicateRows) > 0
         /\ SeqToSet(req[p].dupIds)
               = {req[p].duplicateRows[k].id : k \in 1..Len(req[p].duplicateRows)})
            => req[p].response = "success"

\* The stored rows named by the ids, in the order of the ids (an id named
\* twice counts where it comes first)
RECURSIVE RowsInGivenOrder(_, _)
RowsInGivenOrder(ids, seen) ==
    IF Len(ids) = 0 THEN <<>>
    ELSE IF Head(ids) \in seen \/ RowsById(Head(ids)) = {}
         THEN RowsInGivenOrder(Tail(ids), seen)
         ELSE <<FirstRow(RowsById(Head(ids)))>>
              \o RowsInGivenOrder(Tail(ids), seen \cup {Head(ids)})

\* C20: the merged record is the one obtained by going through the
\* duplicates in the order of duplicateIds: an empty field of the primary
\* takes the value of the first duplicate in that order that has one, and the
\* notes are appended in that order.
C20_GivenOrder ==
    \A p \in Procs :
        (HasMerged(p) /\ req[p].pc = "update") =>
            req[p].mergedContact =
                ComputeMerged(req[p].primaryContact,
                              RowsInGivenOrder(req[p].dupIds, {}))

\* The three signals of the scoring loop for a candidate and a stored row
PhoneSignal(contact, row) ==
    /\ Truthy(contact.phone_number)
    /\ Truthy(row.phone_number)
    /\ arePhoneNumbersSimilar(contact.phone_number, row.phone_number)

EmailSignal(contact, row) ==
    /\ Truthy(contact.email)
    /\ Truthy(row.email)
    /\ areEmailsSimilar(contact.email, row.email)

NameSignal(contact, row) ==
    /\ Truthy(FullName(row))
    /\ Truthy(FullName(contact))
    /\ areNamesSimilar(FullName(row), FullName(contact))

\* detectDuplicates has returned in the call being followed
DetectReturned == call.op = "detectDuplicates" /\ call.results # <<>>

\* The matches the returned call reported
ReturnedDuplicates == call.results[1].result.duplicates

\* C21 as stated: every reported match with phone and email both similar, or
\* with phone or email similar and the name similar, is classified
\* isExactMatch.
C21_ExactMatch_oneStrongPlusName ==
    DetectReturned =>
        \A k \in 1..Len(ReturnedDuplicates) :
            LET d == ReturnedDuplicates[k]
                c == call.args[1]
                phone == PhoneSignal(c, d.existingContact)
                email == EmailSignal(c, d.existingContact)
                name  == NameSignal(c, d.existingContact)
            IN  ((phone /\ email) \/ ((phone \/ email) /\ name)) => d.isExactMatch

\* C21: a reported match is classified isExactMatch exactly when phone and
\* email are both similar; one of them plus name similarity is not enough.
C21_ExactMatch ==
    DetectReturned =>
        \A k \in 1..Len(ReturnedDuplicates) :
            LET d == ReturnedDuplicates[k]
                c == call.args[1]
            IN  d.isExactMatch <=>
                    (PhoneSignal(c, d.existingContact) /\ EmailSignal(c, d.existingContact))

\* A call reported a match with phone and name similar and no email match,
\* not exact, and a match with phone and email similar, exact
C21_Witness ==
    /\ DetectReturned
    /\ \E k \in 1..Len(ReturnedDuplicates) :
          LET d == ReturnedDuplicates[k]
              c == call.args[1]
          IN  /\ PhoneSignal(c, d.existingContact)
              /\ NameSignal(c, d.existingContact)
              /\ ~EmailSignal(c, d.existingContact)
              /\ ~d.isExactMatch
    /\ \E k \in 1..Len(ReturnedDuplicates) :
          LET d == ReturnedDuplicates[k]
              c == call.args[1]
          IN  /\ PhoneSignal(c, d.existingContact)
              /\ EmailSignal(c, d.existingContact)
              /\ d.isExactMatch

\* The place of a row in the rows the query returned
PositionIn(rows, row) == CHOOSE k \in 1..Len(rows) : rows[k] = row

\* C22: the returned duplicates are in descending order of similarityScore,
\* and two matches of equal score stand in the order in which the query
\* returned their rows, which is most recently created first.
C22_SortedStable ==
    DetectReturned =>
        \A i, j \in 1..Len(ReturnedDuplicates) :
            i < j =>
                LET a == ReturnedDuplicates[i]
                    b == ReturnedDuplicates[j]
                    rows == call.results[1].rows
                IN  /\ a.similarityScore >= b.similarityScore
                    /\ a.similarityScore = b.similarityScore =>
                          /\ PositionIn(rows, a.existingContact)
                                 < PositionIn(rows, b.existingContact)
                          /\ a.existingContact.created_at >= b.existingContact.created_at

\* A call returned two matches of equal score and a match that the sort moved
\* behind a row the query had returned after it
C22_Witness ==
    /\ DetectReturned
    /\ \E i, j \in 1..Len(ReturnedDuplicates) :
          /\ i < j
          /\ ReturnedDuplicates[i].similarityScore = ReturnedDuplicates[j].similarityScore
    /\ \E i, j \in 1..Len(ReturnedDuplicates) :
          /\ i < j
          /\ ReturnedDuplicates[i].similarityScore > ReturnedDuplicates[j].similarityScore
          /\ PositionIn(call.results[1].rows, ReturnedDuplicates[i].existingContact)
                 > PositionIn(call.results[1].rows, ReturnedDuplicates[j].existingContact)

\* The test the claim states for a parsed result
PassesStatedTest(c) ==
    /\ Truthy(c.first_name)
    /\ Truthy(c.phone_number)
    /\ Len(normalizePhoneNumber(c.phone_number)) >= 10
    /\ (Truthy(c.email) => Includes(c.email, <<"@">>))

\* What the enhanced path parsed line k to: the line parser's result or, when
\* that is null, the result of the alternative formats
EnhancedParsed(k) ==
    LET line == Trim(parser.lines[k])
    IN  IF parseContactLine(line) # None THEN parseContactLine(line)
        ELSE parseAlternativeFormats(line)

\* C23: in the enhanced path every kept result has a non-empty first name, a
\* phone number that normalizes to at least 10 digits and, if it has an
\* email, an email containing '@', and every parsed result of that kind is
\* kept.
C23_EnhancedKeepsValid ==
    parser.path = "enhanced" =>
        /\ \A k \in 1..Len(parser.contacts) : PassesStatedTest(parser.contacts[k])
        /\ \A k \in 1..(parser.i - 1) :
              (EnhancedParsed(k) # None /\ PassesStatedTest(EnhancedParsed(k)[1])) =>
                  \E j \in 1..Len(parser.contacts) :
                      parser.contacts[j] = EnhancedParsed(k)[1]

\* parseByPattern has returned in the call being followed
PatternReturned == call.op = "parseByPattern" /\ call.results # <<>>

\* The substring of the line the phone patterns matched, NULL when none did
MatchedPhone(line) ==
    IF FirstMatch(phonePatterns[1], line) # NULL
    THEN FirstMatch(phonePatterns[1], line)
    ELSE FirstMatch(phonePatterns[2], line)

\* The substring of the line the email pattern matched, NULL when it matched
\* nothing
MatchedEmail(line) == FirstMatch(emailPattern(Len(line)), line)

\* The first occurrence of a substring cut out of a text, a NULL substring
\* cutting nothing
Without(text, sub) ==
    IF sub = NULL \/ ~Includes(text, sub) THEN text
    ELSE LET at == CHOOSE i \in 1..Len(text) :
                       /\ OccursAt(text, sub, i)
                       /\ \A j \in 1..(i - 1) : ~OccursAt(text, sub, j)
         IN  SubSeq(text, 1, at - 1) \o SubSeq(text, at + Len(sub), Len(text))

\* The name text of the claim: the line without the matched phone, the
\* matched email, commas and semicolons
StatedNameText(line) ==
    Trim(SelectSeq(Trim(Without(Trim(Without(line, MatchedPhone(line))),
                                MatchedEmail(line))),
                   LAMBDA c : c \notin {",", ";"}))

\* C24: parseByPattern returns null when the line holds no phone or nothing
\* but the phone, the email, commas and semicolons; otherwise the first and
\* last name it returns are parsed from the line without the matched phone
\* and the matched email, and hold no part of the matched phone.
C24_PatternNameText ==
    PatternReturned =>
        LET line == call.args[1]
            r == call.results[1]
        IN  /\ (MatchedPhone(line) = NULL \/ StatedNameText(line) = <<>>) => r = <<>>
            /\ r # <<>> =>
                  /\ r[1].first_name = parseName(StatedNameText(line)).first_name
                  /\ r[1].last_name = parseName(StatedNameText(line)).last_name
                  /\ ~Includes(r[1].first_name, MatchedPhone(line))
                  /\ ~Includes(r[1].last_name, MatchedPhone(line))

\* parseSpaceSeparated has returned in the call being followed
SpaceReturned == call.op = "parseSpaceSeparated" /\ call.results # <<>>

\* A token is phone-shaped: it holds a digit, a dash or a parenthesis
PhoneShaped(token) ==
    \E k \in 1..Len(token) : token[k] \in Digits \cup {"-", "(", ")"}

HasAt(token) == \E k \in 1..Len(token) : token[k] = "@"

\* The index of the first phone-shaped token, 0 when there is none
PhoneIndex(tokens) ==
    IF \E i \in 1..Len(tokens) : PhoneShaped(tokens[i])
    THEN CHOOSE i \in 1..Len(tokens) :
            /\ PhoneShaped(tokens[i])
            /\ \A j \in 1..(i - 1) : ~PhoneShaped(tokens[j])
    ELSE 0

\* Token i is the accepted email: the first token with an '@', other than
\* the phone, that passes validateEmail
IsAcceptedEmail(tokens, i) ==
    /\ i # PhoneIndex(tokens)
    /\ HasAt(tokens[i])
    /\ validateEmail(tokens[i]) # NULL
    /\ \A j \in 1..(i - 1) :
          ~(j # PhoneIndex(tokens) /\ HasAt(tokens[j]) /\ validateEmail(tokens[j]) # NULL)

\* Token i was taken as an email candidate: it holds an '@', is not the phone
\* and no email was accepted before it
IsEmailToken(tokens, i) ==
    /\ i # PhoneIndex(tokens)
    /\ HasAt(tokens[i])
    /\ \A j \in 1..(i - 1) : ~IsAcceptedEmail(tokens, j)

\* The relationship types by their lower-case keyword
TypeOfKeyword ==
    { << <<"c", "l", "i", "e", "n", "t">>, <<"C", "l", "i", "e", "n", "t">> >>,
      << <<"v", "e", "n", "d", "o", "r">>, <<"V", "e", "n", "d", "o", "r">> >>,
      << <<"l", "e", "a", "d">>, <<"L", "e", "a", "d">> >>,
      << <<"p", "a", "r", "t", "n", "e", "r">>, <<"P", "a", "r", "t", "n", "e", "r">> >>,
      << <<"o", "t", "h", "e", "r">>, <<"O", "t", "h", "e", "r">> >> }

IsKeywordToken(tokens, i) ==
    /\ i # PhoneIndex(tokens)
    /\ ~IsEmailToken(tokens, i)
    /\ \E pair \in TypeOfKeyword : pair[1] = ToLower(tokens[i])

IsNameToken(tokens, i) ==
    /\ i # PhoneIndex(tokens)
    /\ ~IsEmailToken(tokens, i)
    /\ ~IsKeywordToken(tokens, i)

\* The name tokens of tokens[1..n], in order, joined by single spaces
RECURSIVE NameTextOf(_, _)
NameTextOf(tokens, n) ==
    IF n = 0 THEN <<>>
    ELSE IF ~IsNameToken(tokens, n) THEN NameTextOf(tokens, n - 1)
    ELSE IF NameTextOf(tokens, n - 1) = <<>> THEN tokens[n]
    ELSE NameTextOf(tokens, n - 1) \o <<" ">> \o tokens[n]

\* The contact the claim describes for the tokens of a line
StatedSpaceContact(tokens) ==
    [first_name |-> parseName(NameTextOf(tokens, Len(tokens))).first_name,
     last_name |-> parseName(NameTextOf(tokens, Len(tokens))).last_name,
     phone_number |-> formatPhoneNumber(tokens[PhoneIndex(tokens)]),
     email |-> IF \E i \in 1..Len(tokens) : IsAcceptedEmail(tokens, i)
               THEN tokens[CHOOSE i \in 1..Len(tokens) : IsAcceptedEmail(tokens, i)]
               ELSE NULL,
     relationship_type |->
         IF \E i \in 1..Len(tokens) : IsKeywordToken(tokens, i)
         THEN LET last == CHOOSE i \in 1..Len(tokens) :
                              /\ IsKeywordToken(tokens, i)
                              /\ \A j \in (i + 1)..Len(tokens) : ~IsKeywordToken(tokens, j)
              IN  (CHOOSE pair \in TypeOfKeyword : pair[1] = ToLower(tokens[last]))[2]
         ELSE <<"O", "t", "h", "e", "r">>]

\* C25: parseSpaceSeparated returns null for fewer than 3 tokens; otherwise
\* the first phone-shaped token is the phone, a token with '@' the email, a
\* keyword token the title-cased relationship type and every other token a
\* part of the name, and the result is null iff there is no name token or no
\* phone; "Jane Smith 987-654-3210" gives Jane, Smith, the formatted phone,
\* no email and type Other.
C25_SpaceStrategy ==
    SpaceReturned =>
        LET tokens == SplitWs(call.args[1])
            r == call.results[1]
        IN  /\ Len(tokens) < 3 => r = <<>>
            /\ Len(tokens) >= 3 =>
                  /\ r = <<>> <=>
                        \/ PhoneIndex(tokens) = 0
                        \/ \A i \in 1..Len(tokens) : ~IsNameToken(tokens, i)
                  /\ r # <<>> => r[1] = StatedSpaceContact(tokens)
            /\ call.args[1] = <<"J", "a", "n", "e", " ", "S", "m", "i", "t", "h", " ", "9", "8", "7", "-", "6", "5", "4", "-", "3", "2", "1", "0">> =>
                  r = << [first_name |-> <<"J", "a", "n", "e">>,
                          last_name |-> <<"S", "m", "i", "t", "h">>,
                          phone_number |-> formatPhoneNumber(<<"9", "8", "7", "-", "6", "5", "4", "-", "3", "2", "1", "0">>),
                          email |-> NULL,
                          relationship_type |-> <<"O", "t", "h", "e", "r">>] >>

\* The strategy returned for the example line: Jane, Smith, +19876543210, no
\* email, type Other
C25_Witness ==
    /\ SpaceReturned
    /\ call.args[1] = <<"J", "a", "n", "e", " ", "S", "m", "i", "t", "h", " ", "9", "8", "7", "-", "6", "5", "4", "-", "3", "2", "1", "0">>
    /\ call.results[1] # <<>>
    /\ call.results[1][1].first_name = <<"J", "a", "n", "e">>
    /\ call.results[1][1].last_name = <<"S", "m", "i", "t", "h">>
    /\ call.results[1][1].phone_number = <<"+", "1", "9", "8", "7", "6", "5", "4", "3", "2", "1", "0">>
    /\ call.results[1][1].email = NULL
    /\ call.results[1][1].relationship_type = <<"O", "t", "h", "e", "r">>

\* The parts of a line around the delimiter " - ", each trimmed
DashParts(line) ==
    LET parts == Split(line, <<" ", "-", " ">>)
    IN  [k \in 1..Len(parts) |-> Trim(parts[k])]

\* A line "Name - Phone - Email": three parts, no comma or tab, a phone of at
\* least 10 digits
IsDashLine(line) ==
    /\ Len(DashParts(line)) = 3
    /\ \A k \in 1..Len(line) : line[k] \notin {",", "\t"}
    /\ Len(SelectSeq(DashParts(line)[2], LAMBDA c : c \in Digits)) >= 10

\* C26: once the enhanced path has passed a line "Name - Phone - Email", its
\* output holds a candidate with the name parseName(part 0), the phone
\* formatPhoneNumber(part 1) and the email validateEmail(part 2).
C26_DashSeparated ==
    parser.path = "enhanced" =>
        \A k \in 1..(parser.i - 1) :
            IsDashLine(Trim(parser.lines[k])) =>
                \E j \in 1..Len(parser.contacts) :
                    LET c == parser.contacts[j]
                        parts == DashParts(Trim(parser.lines[k]))
                    IN  /\ c.first_name = parseName(parts[1]).first_name
                        /\ c.last_name = parseName(parts[1]).last_name
                        /\ c.phone_number = formatPhoneNumber(parts[2])
                        /\ c.email = validateEmail(parts[3])

\* Slot p takes a step of mergeContacts
MergeStepOf(p) == req[p].kind = "merge" /\ req'[p] # req[p]

\* Rows x and y agree on the columns mergeContacts never writes
SameFixedColumns(x, y) ==
    /\ x.id = y.id
    /\ x.source = y.source
    /\ x.status = y.status
    /\ x.created_at = y.created_at

\* C27: a step of mergeContacts leaves every stored contact that is neither
\* the primary nor listed in duplicateIds as it was, removes only contacts
\* listed in duplicateIds, adds none, and changes of the primary at most the
\* merged columns: its id, source and status stay.
C27_MergeFrame ==
    [][\A p \in Procs :
          MergeStepOf(p) =>
              /\ \A x \in store :
                    (x.id # req[p].id /\ x.id \notin SeqToSet(req[p].dupIds)) =>
                        x \in store'
              /\ \A x \in store :
                    (\A y \in store' : y.id # x.id) => x.id \in SeqToSet(req[p].dupIds)
              /\ \A y \in store' :
                    \E x \in store :
                        \/ y = x
                        \/ x.id = req[p].id /\ SameFixedColumns(x, y)]_vars

\* A merge has returned success having changed the primary, removed one
\* contact and left the third contact as it was
C27_Witness ==
    \E p \in Procs :
        /\ req[p].kind = "merge"
        /\ req[p].response = "success"
        /\ Cardinality(store) = 2
        /\ \E y \in store : y.id = req[p].id /\ y \notin MergeStore
        /\ \E x \in store : x.id # req[p].id /\ x \in MergeStore

\* C28: when the one merge call on the three-contact table has returned
\* success, its deletedCount is the number of contacts of the table that are
\* no longer stored.
C28_DeletedCount ==
    \A p \in Procs :
        (req[p].kind = "merge" /\ req[p].pc = "done" /\ req[p].response = "success") =>
            req[p].deletedCount =
                Cardinality({x \in MergeStore : \A y \in store : y.id # x.id})

\* A phone string that is not empty and holds no digit
DigitFree(phone) ==
    /\ phone # NULL
    /\ Len(phone) > 0
    /\ \A k \in 1..Len(phone) : phone[k] \notin Digits

\* C29: arePhoneNumbersSimilar returns true for a digit-free phone string and
\* any non-empty phone string, and detectDuplicates called for a candidate
\* with a digit-free phone reports every row of the query result that has a
\* phone number, with a score of at least 0.4.
C29_DigitFreePhoneMatchesAll ==
    /\ (call.op = "arePhoneNumbersSimilar" /\ call.results # <<>>) =>
          ((DigitFree(call.args[1]) /\ Len(call.args[2]) > 0) =>
              call.results[1] = TRUE)
    /\ (DetectReturned /\ DigitFree(call.args[1].phone_number)) =>
          \A k \in 1..Len(call.results[1].rows) :
              LET row == call.results[1].rows[k]
              IN  (row.phone_number # NULL /\ Len(row.phone_number) > 0) =>
                      \E j \in 1..Len(ReturnedDuplicates) :
                          /\ ReturnedDuplicates[j].existingContact = row
                          /\ ReturnedDuplicates[j].similarityScore >= 4

\* arePhoneNumbersSimilar returned true for a digit-free phone string and a
\* phone number of ten digits
C29_Witness ==
    /\ call.op = "arePhoneNumbersSimilar"
    /\ call.results = <<TRUE>>
    /\ DigitFree(call.args[1])
    /\ Len(SelectSeq(call.args[2], LAMBDA c : c \in Digits)) = 10

\* The digits of a phone string without the leading 1 of an 11-digit number:
\* the comparison key, written out
KeyOf(phone) ==
    LET digits == SelectSeq(phone, LAMBDA c : c \in Digits)
    IN  IF Len(digits) = 11 /\ digits[1] = "1" THEN Tail(digits) ELSE digits

\* C30: for every non-empty phone string p, formatPhoneNumber(p) has the
\* comparison key of p, normalizePhoneNumber returns that key for it, and
\* formatting the formatted string returns it unchanged.
C30_FormatKeepsKey ==
    (call.op = "formatThenNormalize" /\ Len(call.args[1]) > 0) =>
        /\ Len(call.results) >= 1 => KeyOf(call.results[1]) = KeyOf(call.args[1])
        /\ Len(call.results) >= 2 => call.results[2] = call.results[1]
        /\ Len(call.results) >= 3 =>
              /\ call.results[3] = normalizePhoneNumber(call.args[1])
              /\ call.results[3] = KeyOf(call.args[1])

\* A punctuated number of ten digits was formatted to another string, which
\* formatted again stayed the same and normalized to the ten digits
C30_Witness ==
    /\ call.op = "formatThenNormalize"
    /\ Len(call.results) = 3
    /\ call.results[1] # call.args[1]
    /\ call.results[2] = call.results[1]
    /\ call.results[3] = SelectSeq(call.args[1], LAMBDA c : c \in Digits)
    /\ Len(call.results[3]) = 10
    /\ Len(call.args[1]) > 10

=============================================================================
